---- MODULE Spec2Model ----
(***************************************************************************)
(* Model of the nvs Node version switcher (rp01/nvs).                      *)
(*                                                                         *)
(* The state is the directory tree under ~/.nvs together with the          *)
(* position of each running command.  Strings are sequences of tokens      *)
(* (so that fmt.Sprintf, strings.Split, strings.HasPrefix and              *)
(* strings.TrimSpace are computed, not assumed); a path is a sequence of   *)
(* path components, each component a string.                               *)
(***************************************************************************)
EXTENDS Integers, Sequences, FiniteSets, TLC

VARIABLES fs, pc, call, last, nfaults, rv

vars == <<fs, pc, call, last, nfaults, rv>>

(***************************************************************************)
(* Bounds                                                                  *)
(***************************************************************************)
NumRequests == 3
MaxFaults == 1
MaxEntries == 3
MaxCatalog == 3

(***************************************************************************)
(* Host platform and the requests a user can type                          *)
(***************************************************************************)
GOOS == "linux"
GOARCH == "amd64"

ReqPool ==
  << [version |-> "18.17.0", targetOS |-> "",        targetArch |-> ""],
     [version |-> "6.17.1",  targetOS |-> "",        targetArch |-> ""],
     [version |-> "18.17.0", targetOS |-> "windows", targetArch |-> "x64"],
     [version |-> "18.17.0", targetOS |-> "bogus",   targetArch |-> ""],
     [version |-> "6.17.1",  targetOS |-> "",        targetArch |-> "arm64"] >>

Requests == {ReqPool[i] : i \in 1..NumRequests}

Procs == {1}

(***************************************************************************)
(* File system primitives (package os / path/filepath)                     *)
(***************************************************************************)
Join(dir, name) == Append(dir, name)

IsPrefix(p, q) == Len(p) <= Len(q) /\ SubSeq(q, 1, Len(p)) = p

Prefixes(p) == {SubSeq(p, 1, n) : n \in 0..Len(p)}

DirNode == [kind |-> "dir", text |-> <<>>, target |-> <<>>]

FileNode(text) == [kind |-> "file", text |-> text, target |-> <<>>]

ShimNode(target) == [kind |-> "shim", text |-> <<>>, target |-> target]

Stat(f, p) == p \in DOMAIN f

MkdirAll(f, p) ==
  [q \in DOMAIN f \cup Prefixes(p) |-> IF q \in DOMAIN f THEN f[q] ELSE DirNode]

RemoveAll(f, p) == [q \in {r \in DOMAIN f : ~IsPrefix(p, r)} |-> f[q]]

\* os.RemoveAll that hits an entry e it cannot remove: everything else under
\* p is removed, e and the directories leading to it stay.
RemoveAllBut(f, p, e) ==
  [q \in {r \in DOMAIN f : ~IsPrefix(p, r) \/ r \in Prefixes(e)} |-> f[q]]

\* os.Remove: a file or an empty directory; otherwise nothing happens
Remove(f, p) ==
  IF p \in DOMAIN f /\ ~\E r \in DOMAIN f : r # p /\ IsPrefix(p, r)
  THEN [q \in DOMAIN f \ {p} |-> f[q]]
  ELSE f

WriteFile(f, p, node) ==
  [q \in DOMAIN f \cup {p} |-> IF q = p THEN node ELSE f[q]]

Rename(f, src, dest) ==
  LET moved == {r \in DOMAIN f : IsPrefix(src, r)}
      kept  == DOMAIN f \ moved
      to(r) == dest \o SubSeq(r, Len(src) + 1, Len(r))
  IN  [q \in kept \cup {to(r) : r \in moved} |->
         IF \E r \in moved : to(r) = q
         THEN f[CHOOSE r \in moved : to(r) = q]
         ELSE f[q]]

ReadDirNames(f, p) ==
  {r[Len(r)] : r \in {s \in DOMAIN f : Len(s) = Len(p) + 1 /\ IsPrefix(p, s)}}

(***************************************************************************)
(* Layout of ~/.nvs                                                        *)
(***************************************************************************)
NVSDir == <<>>
VersionsDir == Join(NVSDir, <<"versions">>)
CurrentFile == Join(NVSDir, <<"current">>)
BinDir == Join(NVSDir, <<"bin">>)
LinkDir == Join(NVSDir, <<"current-bin">>)

(***************************************************************************)
(* Pure helpers of main.go                                                 *)
(***************************************************************************)
\* Install / Use: "Create unique directory name for cross-platform installs"
VersionKey(version, targetOS, targetArch) ==
  IF targetOS # "" \/ targetArch # ""
  THEN LET os   == IF targetOS = "" THEN GOOS ELSE targetOS
           arch == IF targetArch = "" THEN GOARCH ELSE targetArch
       IN  <<version, "-", os, "-", arch>>
  ELSE <<version>>

Keys == {VersionKey(r.version, r.targetOS, r.targetArch) : r \in Requests}

\* getNodeRelease taking every unknown platform for linux
getNodeRelease_DefaultsToLinux(version, targetOS, targetArch) ==
  LET platform == IF targetOS = "" THEN GOOS ELSE targetOS
      arch     == IF targetArch = "" THEN GOARCH ELSE targetArch
      platformName ==
        CASE platform \in {"windows", "win"} -> "win"
          [] platform \in {"darwin", "macos"} -> "darwin"
          [] platform = "linux" -> "linux"
          [] OTHER -> "linux"
      ext ==
        CASE platformName = "win" -> "zip"
          [] platformName = "darwin" -> "tar.gz"
          [] platformName = "linux" -> "tar.xz"
          [] OTHER -> ""
      archName ==
        CASE arch \in {"x86_64", "amd64"} -> "x64"
          [] arch \in {"aarch64", "arm64"} -> "arm64"
          [] arch \in {"x86", "i386", "ia32", "386"} -> "x86"
          [] OTHER -> arch
      filename == <<"node-", "v", version, "-", platformName, "-", archName, ".", ext>>
  IN  IF platformName = ""
      THEN [ok |-> FALSE, Version |-> version, URL |-> <<>>, Filename |-> <<>>,
            Ext |-> "", platformName |-> "", archName |-> archName]
      ELSE [ok |-> TRUE, Version |-> version,
            URL |-> <<"https://nodejs.org/dist/", "v", version, "/">> \o filename,
            Filename |-> filename, Ext |-> ext,
            platformName |-> platformName, archName |-> archName]

\* getNodeRelease leaving x86_64 and amd64 as they are
getNodeRelease_RawArch(version, targetOS, targetArch) ==
  LET platform == IF targetOS = "" THEN GOOS ELSE targetOS
      arch     == IF targetArch = "" THEN GOARCH ELSE targetArch
      platformName ==
        CASE platform \in {"windows", "win"} -> "win"
          [] platform \in {"darwin", "macos"} -> "darwin"
          [] platform = "linux" -> "linux"
          [] OTHER -> ""
      ext ==
        CASE platformName = "win" -> "zip"
          [] platformName = "darwin" -> "tar.gz"
          [] platformName = "linux" -> "tar.xz"
          [] OTHER -> ""
      archName ==
        CASE arch \in {"aarch64", "arm64"} -> "arm64"
          [] arch \in {"x86", "i386", "ia32", "386"} -> "x86"
          [] OTHER -> arch
      filename == <<"node-", "v", version, "-", platformName, "-", archName, ".", ext>>
  IN  IF platformName = ""
      THEN [ok |-> FALSE, Version |-> version, URL |-> <<>>, Filename |-> <<>>,
            Ext |-> "", platformName |-> "", archName |-> archName]
      ELSE [ok |-> TRUE, Version |-> version,
            URL |-> <<"https://nodejs.org/dist/", "v", version, "/">> \o filename,
            Filename |-> filename, Ext |-> ext,
            platformName |-> platformName, archName |-> archName]

\* lines 185-223
getNodeRelease(version, targetOS, targetArch) ==
  LET platform == IF targetOS = "" THEN GOOS ELSE targetOS
      arch     == IF targetArch = "" THEN GOARCH ELSE targetArch
      platformName ==
        CASE platform \in {"windows", "win"} -> "win"
          [] platform \in {"darwin", "macos"} -> "darwin"
          [] platform = "linux" -> "linux"
          [] OTHER -> ""
      ext ==
        CASE platformName = "win" -> "zip"
          [] platformName = "darwin" -> "tar.gz"
          [] platformName = "linux" -> "tar.xz"
          [] OTHER -> ""
      archName ==
        CASE arch \in {"x86_64", "amd64"} -> "x64"
          [] arch \in {"aarch64", "arm64"} -> "arm64"
          [] arch \in {"x86", "i386", "ia32", "386"} -> "x86"
          [] OTHER -> arch
      filename == <<"node-", "v", version, "-", platformName, "-", archName, ".", ext>>
  IN  IF platformName = ""
      THEN [ok |-> FALSE, Version |-> version, URL |-> <<>>, Filename |-> <<>>,
            Ext |-> "", platformName |-> "", archName |-> archName]
      ELSE [ok |-> TRUE, Version |-> version,
            URL |-> <<"https://nodejs.org/dist/", "v", version, "/">> \o filename,
            Filename |-> filename, Ext |-> ext,
            platformName |-> platformName, archName |-> archName]

ReleaseOf(req) == getNodeRelease(req.version, req.targetOS, req.targetArch)

\* filepath.Clean on a component sequence: "." and ".." are resolved
RECURSIVE Clean(_)
Clean(p) ==
  IF p = <<>> THEN <<>>
  ELSE LET c == Clean(SubSeq(p, 1, Len(p) - 1))
           x == p[Len(p)]
       IN  IF x = <<"..">> THEN (IF c = <<>> THEN <<>> ELSE SubSeq(c, 1, Len(c) - 1))
           ELSE IF x = <<".">> THEN c
           ELSE Append(c, x)

\* strings.HasPrefix on token strings
HasPrefix(s, prefix) == Len(prefix) <= Len(s) /\ SubSeq(s, 1, Len(prefix)) = prefix

\* strings.TrimSpace on token strings
IsSpace(t) == t \in {" ", "\n", "\t"}

RECURSIVE TrimLeft(_)
TrimLeft(s) == IF s # <<>> /\ IsSpace(Head(s)) THEN TrimLeft(Tail(s)) ELSE s

RECURSIVE TrimRight(_)
TrimRight(s) ==
  IF s # <<>> /\ IsSpace(s[Len(s)]) THEN TrimRight(SubSeq(s, 1, Len(s) - 1)) ELSE s

TrimSpace(s) == TrimRight(TrimLeft(s))

(***************************************************************************)
(* Strings character by character: what sort.Slice in List compares, and   *)
(* what resolveVersion and compareVersions take apart.  A character string *)
(* is a sequence of one-character strings.                                 *)
(***************************************************************************)
\* the characters that occur, in the order of their byte values
AsciiOrder ==
  << "-", ".", "0", "1", "2", "3", "4", "5", "6", "7", "8", "9",
     "a", "b", "c", "d", "e", "g", "i", "l", "m", "n", "o", "r", "s", "t", "u", "v",
     "w", "x" >>

Ord(ch) == CHOOSE i \in 1..Len(AsciiOrder) : AsciiOrder[i] = ch

\* Go's s < t on strings: bytewise, a proper prefix is smaller
RECURSIVE StrLess(_, _)
StrLess(s, t) ==
  IF t = <<>> THEN FALSE
  ELSE IF s = <<>> THEN TRUE
  ELSE IF Head(s) # Head(t) THEN Ord(Head(s)) < Ord(Head(t))
  ELSE StrLess(Tail(s), Tail(t))

\* the characters of the tokens that make up version keys
Chars(tok) ==
  CASE tok = "18.17.0" -> <<"1", "8", ".", "1", "7", ".", "0">>
    [] tok = "6.17.1"  -> <<"6", ".", "1", "7", ".", "1">>
    [] tok = "18"      -> <<"1", "8">>
    [] tok = "99"      -> <<"9", "9">>
    [] tok = "-"       -> <<"-">>
    [] tok = "linux"   -> <<"l", "i", "n", "u", "x">>
    [] tok = "windows" -> <<"w", "i", "n", "d", "o", "w", "s">>
    [] tok = "bogus"   -> <<"b", "o", "g", "u", "s">>
    [] tok = "amd64"   -> <<"a", "m", "d", "6", "4">>
    [] tok = "arm64"   -> <<"a", "r", "m", "6", "4">>
    [] tok = "x64"     -> <<"x", "6", "4">>
    [] tok = "macos"   -> <<"m", "a", "c", "o", "s">>

RECURSIVE KeyChars(_)
KeyChars(key) ==
  IF key = <<>> THEN <<>> ELSE Chars(Head(key)) \o KeyChars(Tail(key))

\* strings.Split(s, sep) for a one-character separator
RECURSIVE Split(_, _)
Split(s, sep) ==
  IF \A i \in 1..Len(s) : s[i] # sep THEN <<s>>
  ELSE LET i == CHOOSE j \in 1..Len(s) :
                  s[j] = sep /\ \A k \in 1..(j - 1) : s[k] # sep
       IN  <<SubSeq(s, 1, i - 1)>> \o Split(SubSeq(s, i + 1, Len(s)), sep)

\* the decimal value of a string of digits
RECURSIVE DigitsValue(_)
DigitsValue(s) ==
  IF s = <<>> THEN 0
  ELSE DigitsValue(SubSeq(s, 1, Len(s) - 1)) * 10 + (Ord(s[Len(s)]) - Ord("0"))

(***************************************************************************)
(* What nodejs.org serves: the entries of the archive of a release, in     *)
(* archive order.  Unix archives carry bin/ and lib/ inside a node-v...    *)
(* wrapper directory, the Windows zip has the binaries at the wrapper's    *)
(* top level; Node 6 ships without npx.                                    *)
(***************************************************************************)
HasNpx(version) == version # "6.17.1"

WrapperName(rel) ==
  <<"node-", "v", rel.Version, "-", rel.platformName, "-", rel.archName>>

ArchiveEntries(rel) ==
  LET w == WrapperName(rel)
      d(n) == [name |-> n, isDir |-> TRUE, linkTarget |-> <<>>]
      f(n) == [name |-> n, isDir |-> FALSE, linkTarget |-> <<>>]
  IN  IF rel.platformName = "win"
      THEN << d(<<w>>), f(<<w, <<"node.exe">>>>), f(<<w, <<"npm.cmd">>>>),
              f(<<w, <<"npx.cmd">>>>) >>
      ELSE << d(<<w>>), f(<<w, <<"bin">>, <<"node">>>>), f(<<w, <<"bin">>, <<"npm">>>>) >>
           \o (IF HasNpx(rel.Version) THEN << f(<<w, <<"bin">>, <<"npx">>>>) >> ELSE << >>)
           \o << d(<<w, <<"lib">>>>) >>

\* os.ReadDir returns the entries sorted by filename
NameOrder ==
  << <<"bin">>, <<"lib">>, <<"node.exe">>, <<"npm.cmd">>, <<"npx.cmd">> >>

ReadDir(f, p) == SelectSeq(NameOrder, LAMBDA n : n \in ReadDirNames(f, p))

\* getCurrentVersion, as [err, value]: os.ReadFile fails when the file is absent
getCurrentVersion(f) ==
  IF Stat(f, CurrentFile) /\ f[CurrentFile].kind = "file"
  THEN [err |-> FALSE, value |-> TrimSpace(f[CurrentFile].text)]
  ELSE [err |-> TRUE, value |-> <<>>]

(***************************************************************************)
(* Commands in progress                                                    *)
(***************************************************************************)
NoReq == [version |-> "", targetOS |-> "", targetArch |-> ""]

NoPointer == [err |-> TRUE, value |-> <<>>]

\* op, req, key: the command and its arguments; pre: the key's directory
\* existed when the command started; cur: what getCurrentVersion gave then;
\* dl, ex: downloads and extractions started; i, names, wrapper: loop state;
\* list: the lines List printed; archive: the entries extractArchive was given
NoCall ==
  [op |-> "none", req |-> NoReq, key |-> <<>>, i |-> 0, names |-> <<>>,
   wrapper |-> <<>>, dl |-> 0, ex |-> 0, pre |-> FALSE, force |-> FALSE,
   cur |-> NoPointer, list |-> <<>>, archive |-> <<>>]

NewCall(op, req, key, pre, force) ==
  [NoCall EXCEPT !.op = op, !.req = req, !.key = key, !.pre = pre, !.force = force,
                 !.cur = getCurrentVersion(fs)]

\* the command of process p returns: ret is "nil" or "error", out is the
\* notice it printed
Return(p, c, ret, out) ==
  /\ pc' = [pc EXCEPT ![p] = "idle"]
  /\ call' = [call EXCEPT ![p] = NoCall]
  /\ last' = [op |-> c.op, req |-> c.req, key |-> c.key, ret |-> ret, out |-> out,
              dl |-> c.dl, ex |-> c.ex, pre |-> c.pre, force |-> c.force,
              cur |-> c.cur, list |-> c.list, archive |-> c.archive]
  /\ UNCHANGED rv

NoLast ==
  [op |-> "none", req |-> NoReq, key |-> <<>>, ret |-> "nil", out |-> "",
   dl |-> 0, ex |-> 0, pre |-> FALSE, force |-> FALSE, cur |-> NoPointer,
   list |-> <<>>, archive |-> <<>>]

\* the command of process p passed its first checks and is now running
Start(p, label, c) ==
  /\ pc' = [pc EXCEPT ![p] = label]
  /\ call' = [call EXCEPT ![p] = c]
  /\ last' = NoLast
  /\ UNCHANGED rv

Goto(p, label, c) ==
  /\ pc' = [pc EXCEPT ![p] = label]
  /\ call' = [call EXCEPT ![p] = c]
  /\ UNCHANGED <<last, rv>>

\* a command starts
Begin(p) ==
  /\ pc[p] = "idle"
  /\ UNCHANGED nfaults

\* a step fails (network, disk, permissions); at most MaxFaults steps do
Fault ==
  /\ nfaults < MaxFaults
  /\ nfaults' = nfaults + 1

VersionDir(key) == Join(VersionsDir, key)

DownloadPath(req) == Join(NVSDir, ReleaseOf(req).Filename)

(***************************************************************************)
(* main.go: Install                                                        *)
(***************************************************************************)
\* InstallCall without the "already installed" return
InstallCall_NoCheck(p, req) ==
  LET key == VersionKey(req.version, req.targetOS, req.targetArch)
      c   == NewCall("Install", req, key, Stat(fs, VersionDir(key)), FALSE)
  IN  /\ Begin(p)
      /\ UNCHANGED fs
      /\ IF ~ReleaseOf(req).ok
         THEN Return(p, c, "error", "UnsupportedPlatform")
         ELSE Start(p, "download", c)

\* lines 341-377: key, already-installed check, release descriptor
InstallCall(p, req) ==
  LET key == VersionKey(req.version, req.targetOS, req.targetArch)
      c   == NewCall("Install", req, key, Stat(fs, VersionDir(key)), FALSE)
  IN  /\ Begin(p)
      /\ UNCHANGED fs
      /\ IF Stat(fs, VersionDir(key))
         THEN Return(p, c, "nil", "AlreadyInstalled")
         ELSE IF ~ReleaseOf(req).ok
              THEN Return(p, c, "error", "UnsupportedPlatform")
              ELSE Start(p, "download", c)

\* downloadWithProgress succeeds: the archive is at downloadPath
DownloadOk(p) ==
  /\ pc[p] = "download"
  /\ fs' = WriteFile(fs, DownloadPath(call[p].req), FileNode(<<"archive">>))
  /\ Goto(p, "extract_open", [call[p] EXCEPT !.dl = @ + 1])
  /\ UNCHANGED nfaults

\* http.Get fails, the status is not 200, or os.Create fails: no file
DownloadFailNoFile(p) ==
  /\ pc[p] = "download"
  /\ call[p].op = "Install"
  /\ UNCHANGED fs
  /\ Fault
  /\ Return(p, [call[p] EXCEPT !.dl = @ + 1], "error", "DownloadFailed")

\* io.Copy fails after os.Create: Install returns without removing the file
DownloadFailPartial(p) ==
  /\ pc[p] = "download"
  /\ call[p].op = "Install"
  /\ fs' = WriteFile(fs, DownloadPath(call[p].req), FileNode(<<"partial">>))
  /\ Fault
  /\ Return(p, [call[p] EXCEPT !.dl = @ + 1], "error", "DownloadFailed")

\* Install lines 387-392: "Cleanup on failure"
ExtractCleanup(f, c) ==
  Remove(RemoveAll(f, VersionDir(c.key)), DownloadPath(c.req))

\* extractArchive lines 265-286 pass: the destination directory exists
ExtractOpenOk(p) ==
  /\ pc[p] = "extract_open"
  /\ fs' = MkdirAll(fs, VersionDir(call[p].key))
  /\ Goto(p, "extract", [call[p] EXCEPT !.i = 1, !.ex = @ + 1])
  /\ UNCHANGED nfaults

\* MkdirAll, os.Open or archives.Identify fails (e.g. a truncated archive)
ExtractOpenFail(p) ==
  /\ pc[p] = "extract_open"
  /\ call[p].op = "Install"
  /\ fs' = ExtractCleanup(MkdirAll(fs, VersionDir(call[p].key)), call[p])
  /\ Fault
  /\ Return(p, [call[p] EXCEPT !.ex = @ + 1], "error", "ExtractFailed")

\* the callback of extractor.Extract, lines 289-328, on one entry
DestPath(extractPath, nameInArchive) == Clean(extractPath \o nameInArchive)

\* the security check letting every path through
PathInside_Always(extractPath, destPath) == TRUE

PathInside(extractPath, destPath) ==
  IsPrefix(Clean(extractPath), destPath) /\ Len(destPath) > Len(Clean(extractPath))

\* what io.Copy reads from f.Open(): the content of a regular file; a
\* symlink entry of a tar archive has no content, only a link name
EntryBytes(e) == IF e.linkTarget = <<>> THEN <<"bytes">> ELSE <<>>

ExtractOne(f, extractPath, e) ==
  LET destPath == DestPath(extractPath, e.name)
  IN  IF e.isDir
      THEN MkdirAll(f, destPath)
      ELSE WriteFile(MkdirAll(f, SubSeq(destPath, 1, Len(destPath) - 1)),
                     destPath, FileNode(EntryBytes(e)))

ExtractEntryOk(p) ==
  LET c == call[p]
      entries == ArchiveEntries(ReleaseOf(c.req))
  IN  /\ pc[p] = "extract"
      /\ c.i <= Len(entries)
      /\ PathInside(VersionDir(c.key), DestPath(VersionDir(c.key), entries[c.i].name))
      /\ fs' = ExtractOne(fs, VersionDir(c.key), entries[c.i])
      /\ Goto(p, "extract", [c EXCEPT !.i = @ + 1])
      /\ UNCHANGED nfaults

\* the callback returns an error (path check or I/O): extraction stops
ExtractEntryFail(p) ==
  LET c == call[p]
      entries == ArchiveEntries(ReleaseOf(c.req))
  IN  /\ pc[p] = "extract"
      /\ c.op = "Install"
      /\ c.i <= Len(entries)
      /\ fs' = ExtractCleanup(fs, c)
      /\ Fault
      /\ Return(p, c, "error", "ExtractFailed")

\* extractArchive lines 334-337: "Clean up archive"
ExtractDone(p) ==
  LET c == call[p]
  IN  /\ pc[p] = "extract"
      /\ c.i > Len(ArchiveEntries(ReleaseOf(c.req)))
      /\ fs' = Remove(fs, DownloadPath(c.req))
      /\ Goto(p, "flatten_scan", c)
      /\ UNCHANGED nfaults

\* Install lines 395-408: find the node-* directory and list its children
IsWrapper(f, versionDir, n) ==
  f[Join(versionDir, n)].kind = "dir" /\ HasPrefix(n, <<"node-">>)

FlattenScanOk(p) ==
  LET c == call[p]
      versionDir == VersionDir(c.key)
      ws == {n \in ReadDirNames(fs, versionDir) : IsWrapper(fs, versionDir, n)}
  IN  /\ pc[p] = "flatten_scan"
      /\ UNCHANGED <<fs, nfaults>>
      /\ IF ws = {}
         THEN Goto(p, "flatten_move", c)
         ELSE LET w == CHOOSE n \in ws : TRUE
              IN  Goto(p, "flatten_move",
                       [c EXCEPT !.wrapper = w,
                                 !.names = ReadDir(fs, Join(versionDir, w))])

\* os.ReadDir fails: Install returns, the version directory stays
FlattenScanFail(p) ==
  /\ pc[p] = "flatten_scan"
  /\ call[p].op = "Install"
  /\ UNCHANGED fs
  /\ Fault
  /\ Return(p, call[p], "error", "ReadDirFailed")

\* Install lines 410-416: move one child of the wrapper up one level
FlattenMoveOk(p) ==
  LET c == call[p]
      versionDir == VersionDir(c.key)
      src  == Join(Join(versionDir, c.wrapper), Head(c.names))
      dest == Join(versionDir, Head(c.names))
  IN  /\ pc[p] = "flatten_move"
      /\ c.names # <<>>
      /\ fs' = Rename(fs, src, dest)
      /\ Goto(p, "flatten_move", [c EXCEPT !.names = Tail(@)])
      /\ UNCHANGED nfaults

\* os.Rename fails: Install returns, the version directory stays
FlattenMoveFail(p) ==
  /\ pc[p] = "flatten_move"
  /\ call[p].op = "Install"
  /\ call[p].names # <<>>
  /\ UNCHANGED fs
  /\ Fault
  /\ Return(p, call[p], "error", "MoveFailed")

\* fixNpmSymlinks: an empty bin/npm or bin/npx becomes a wrapper script
fixNpmSymlinks(f, versionDir) ==
  LET binDir == Join(versionDir, <<"bin">>)
      npmLibBin == versionDir \o << <<"lib">>, <<"node_modules">>, <<"npm">>, <<"bin">> >>
      fix(g, bin, cli) ==
        LET path == Join(binDir, <<bin>>)
        IN  IF Stat(g, path) /\ Len(g[path].text) = 0
            THEN WriteFile(Remove(g, path), path,
                           FileNode(<<"#!/bin/sh exec ", cli>>))
            ELSE g
  IN  IF ~Stat(f, npmLibBin) THEN f
      ELSE fix(fix(f, "npm", "npm-cli.js"), "npx", "npx-cli.js")

\* Install finishing without os.Remove(extractedPath)
InstallFinish_KeepsWrapper(p) ==
  LET c == call[p]
      versionDir == VersionDir(c.key)
  IN  /\ pc[p] = "flatten_move"
      /\ c.op = "Install"
      /\ c.names = <<>>
      /\ fs' = IF GOOS # "windows" THEN fixNpmSymlinks(fs, versionDir) ELSE fs
      /\ UNCHANGED nfaults
      /\ Return(p, c, "nil", "Installed")

\* Install lines 418-437: drop the wrapper, repair npm/npx, report success
InstallFinish(p) ==
  LET c == call[p]
      versionDir == VersionDir(c.key)
      g == IF c.wrapper = <<>> THEN fs ELSE Remove(fs, Join(versionDir, c.wrapper))
  IN  /\ pc[p] = "flatten_move"
      /\ c.op = "Install"
      /\ c.names = <<>>
      /\ fs' = IF GOOS # "windows" THEN fixNpmSymlinks(g, versionDir) ELSE g
      /\ UNCHANGED nfaults
      /\ Return(p, c, "nil", "Installed")

(***************************************************************************)
(* main.go: Use and createVersionLinks                                     *)
(***************************************************************************)
BinPath(versionDir) ==
  IF GOOS # "windows" THEN Join(versionDir, <<"bin">>) ELSE versionDir

\* the key computed without the host platform for a missing component
UseVersionKey_NoHostFill(version, targetOS, targetArch) ==
  IF targetOS # "" \/ targetArch # ""
  THEN <<version, "-", targetOS, "-", targetArch>>
  ELSE <<version>>

\* Use lines 481-495: "Create version key for lookup"
UseVersionKey(version, targetOS, targetArch) ==
  IF targetOS # "" \/ targetArch # ""
  THEN LET os   == IF targetOS = "" THEN GOOS ELSE targetOS
           arch == IF targetArch = "" THEN GOARCH ELSE targetArch
       IN  <<version, "-", os, "-", arch>>
  ELSE <<version>>

\* UseCall saving the current version before it checks the bin directory
UseCall_WritesFirst(p, req) ==
  LET key == UseVersionKey(req.version, req.targetOS, req.targetArch)
      versionDir == VersionDir(key)
      c == NewCall("Use", req, key, Stat(fs, versionDir), FALSE)
  IN  /\ Begin(p)
      /\ IF ~Stat(fs, versionDir)
         THEN UNCHANGED fs /\ Return(p, c, "nil", "NotInstalled")
         ELSE IF ~Stat(fs, BinPath(versionDir))
              THEN /\ fs' = WriteFile(fs, CurrentFile, FileNode(key))
                   /\ Return(p, c, "nil", "InvalidInstallation")
              ELSE UNCHANGED fs /\ Start(p, "use_write", c)

\* UseCall without the check of the bin directory
UseCall_SkipsBinCheck(p, req) ==
  LET key == UseVersionKey(req.version, req.targetOS, req.targetArch)
      versionDir == VersionDir(key)
      c == NewCall("Use", req, key, Stat(fs, versionDir), FALSE)
  IN  /\ Begin(p)
      /\ UNCHANGED fs
      /\ IF ~Stat(fs, versionDir)
         THEN Return(p, c, "nil", "NotInstalled")
         ELSE Start(p, "use_write", c)

\* Use lines 480-529: key and the two checks, which print and return nil
UseCall(p, req) ==
  LET key == UseVersionKey(req.version, req.targetOS, req.targetArch)
      versionDir == VersionDir(key)
      c == NewCall("Use", req, key, Stat(fs, versionDir), FALSE)
  IN  /\ Begin(p)
      /\ UNCHANGED fs
      /\ IF ~Stat(fs, versionDir)
         THEN Return(p, c, "nil", "NotInstalled")
         ELSE IF ~Stat(fs, BinPath(versionDir))
              THEN Return(p, c, "nil", "InvalidInstallation")
              ELSE Start(p, "use_write", c)

\* Use lines 531-534: "Save current version"
UseWriteOk(p) ==
  /\ pc[p] = "use_write"
  /\ fs' = WriteFile(fs, CurrentFile, FileNode(call[p].key))
  /\ Goto(p, "links_reset", call[p])
  /\ UNCHANGED nfaults

UseWriteFail(p) ==
  /\ pc[p] = "use_write"
  /\ UNCHANGED fs
  /\ Fault
  /\ Return(p, call[p], "error", "WriteCurrentFailed")

\* LinksResetOk keeping the old link directory
LinksResetOk_NoRemove(p) ==
  /\ pc[p] = "links_reset"
  /\ fs' = MkdirAll(fs, LinkDir)
  /\ Goto(p, "links", [call[p] EXCEPT !.i = 1])
  /\ UNCHANGED nfaults

\* createVersionLinks lines 693-697: "Remove existing links"
LinksResetOk(p) ==
  /\ pc[p] = "links_reset"
  /\ fs' = MkdirAll(RemoveAll(fs, LinkDir), LinkDir)
  /\ Goto(p, "links", [call[p] EXCEPT !.i = 1])
  /\ UNCHANGED nfaults

LinksResetFail(p) ==
  /\ pc[p] = "links_reset"
  /\ fs' = RemoveAll(fs, LinkDir)
  /\ Fault
  /\ Return(p, call[p], "error", "LinkDirFailed")

binaries == <<"node", "npm", "npx">>

\* createVersionLinks lines 702-735 for one binary: a symlink, or the shell
\* script written when os.Symlink fails; either forwards to sourcePath
LinkOne(f, binPath, binary) ==
  LET sourcePath == Join(binPath, <<binary>>)
      linkPath == Join(LinkDir, <<binary>>)
  IN  IF Stat(f, sourcePath) THEN WriteFile(f, linkPath, ShimNode(sourcePath)) ELSE f

LinkCreate(p) ==
  LET c == call[p]
  IN  /\ pc[p] = "links"
      /\ c.i <= Len(binaries)
      /\ fs' = LinkOne(fs, BinPath(VersionDir(c.key)), binaries[c.i])
      /\ Goto(p, "links", [c EXCEPT !.i = @ + 1])
      /\ UNCHANGED nfaults

\* both os.Symlink and the fallback os.WriteFile fail
LinkCreateFail(p) ==
  LET c == call[p]
  IN  /\ pc[p] = "links"
      /\ c.i <= Len(binaries)
      /\ Stat(fs, Join(BinPath(VersionDir(c.key)), <<binaries[c.i]>>))
      /\ UNCHANGED fs
      /\ Fault
      /\ Return(p, c, "error", "LinkFailed")

\* Use lines 541-561: "Switched to Node.js"
UseFinish(p) ==
  /\ pc[p] = "links"
  /\ call[p].op = "Use"
  /\ call[p].i > Len(binaries)
  /\ UNCHANGED <<fs, nfaults>>
  /\ Return(p, call[p], "nil", "Switched")

(***************************************************************************)
(* main.go: getCurrentVersion, Current, Uninstall                          *)
(***************************************************************************)
\* Current lines 811-820: what it prints
CurrentReport(f) ==
  IF getCurrentVersion(f).err THEN "NoVersionSelected" ELSE "CurrentlyUsing"

\* Current passing the error of getCurrentVersion on
Current_ReturnsError(p) ==
  LET c == NewCall("Current", NoReq, getCurrentVersion(fs).value, FALSE, FALSE)
  IN  /\ Begin(p)
      /\ UNCHANGED fs
      /\ IF getCurrentVersion(fs).err
         THEN Return(p, c, "error", "ReadFailed")
         ELSE Return(p, c, "nil", CurrentReport(fs))

Current(p) ==
  LET c == NewCall("Current", NoReq, getCurrentVersion(fs).value, FALSE, FALSE)
  IN  /\ Begin(p)
      /\ UNCHANGED fs
      /\ Return(p, c, "nil", CurrentReport(fs))

\* Uninstall lines 823-829
UninstallCall(p, version) ==
  LET c == NewCall("Uninstall", NoReq, version, Stat(fs, VersionDir(version)), FALSE)
  IN  /\ Begin(p)
      /\ UNCHANGED fs
      /\ IF ~Stat(fs, VersionDir(version))
         THEN Return(p, c, "nil", "NotInstalled")
         ELSE Start(p, "un_remove", c)

\* UninstallRemoveOk with os.Remove in place of os.RemoveAll
UninstallRemoveOk_Shallow(p) ==
  /\ pc[p] = "un_remove"
  /\ fs' = Remove(fs, VersionDir(call[p].key))
  /\ Goto(p, "un_clear", call[p])
  /\ UNCHANGED nfaults

\* Uninstall lines 831-835
UninstallRemoveOk(p) ==
  /\ pc[p] = "un_remove"
  /\ fs' = RemoveAll(fs, VersionDir(call[p].key))
  /\ Goto(p, "un_clear", call[p])
  /\ UNCHANGED nfaults

\* os.RemoveAll returns an error: some entry e could not be removed
UninstallRemoveFail(p) ==
  /\ pc[p] = "un_remove"
  /\ \E e \in {r \in DOMAIN fs : IsPrefix(VersionDir(call[p].key), r)} :
       fs' = RemoveAllBut(fs, VersionDir(call[p].key), e)
  /\ Fault
  /\ Return(p, call[p], "error", "RemoveFailed")

\* UninstallClear that never removes the current file
UninstallClear_Keeps(p) ==
  /\ pc[p] = "un_clear"
  /\ UNCHANGED <<fs, nfaults>>
  /\ Return(p, call[p], "nil", "Uninstalled")

\* Uninstall lines 837-842: "Clear current if it was the uninstalled version"
UninstallClear(p) ==
  LET cur == getCurrentVersion(fs)
  IN  /\ pc[p] = "un_clear"
      /\ fs' = IF ~cur.err /\ cur.value = call[p].key
               THEN Remove(fs, CurrentFile) ELSE fs
      /\ UNCHANGED nfaults
      /\ Return(p, call[p], "nil", "Uninstalled")

(***************************************************************************)
(* main.go: List                                                           *)
(***************************************************************************)
\* the comparison handed to sort.Slice, lines 768-781
listLess(a, b) ==
  LET partsI == Split(KeyChars(a), "-")
      partsJ == Split(KeyChars(b), "-")
  IN  IF partsI[1] # partsJ[1]
      THEN StrLess(partsI[1], partsJ[1])
      ELSE StrLess(KeyChars(a), KeyChars(b))

\* sort.Slice on distinct names: the one arrangement listLess agrees with
RECURSIVE SortSlice(_)
SortSlice(S) ==
  IF S = {} THEN <<>>
  ELSE LET first == CHOOSE a \in S : \A b \in S \ {a} : listLess(a, b)
       IN  <<first>> \o SortSlice(S \ {first})

\* lines 749-758: the names of the directories directly under versions/
ListVersions(f) ==
  {n \in ReadDirNames(f, VersionsDir) : f[Join(VersionsDir, n)].kind = "dir"}

\* ListLines marking every entry of the current version number
ListLines_MarksByVersion(f) ==
  LET versions == SortSlice(ListVersions(f))
      current == getCurrentVersion(f).value
  IN  [i \in 1..Len(versions) |->
         [key |-> versions[i], current |-> <<Head(versions[i])>> = current]]

\* lines 766-796: sort, then one line per key, marked when it is the current
ListLines(f) ==
  LET versions == SortSlice(ListVersions(f))
      current == getCurrentVersion(f).value
  IN  [i \in 1..Len(versions) |->
         [key |-> versions[i], current |-> versions[i] = current]]

List(p) ==
  LET c == NewCall("List", NoReq, <<>>, FALSE, FALSE)
  IN  /\ Begin(p)
      /\ UNCHANGED fs
      /\ IF ~Stat(fs, VersionsDir) \/ ListVersions(fs) = {}
         THEN Return(p, c, "nil", "NoVersionsInstalled")
         ELSE Return(p, [c EXCEPT !.list = ListLines(fs)], "nil", "Listed")

\* os.ReadDir of the versions directory fails, lines 750-752
ListFail(p) ==
  /\ pc[p] = "idle"
  /\ Stat(fs, VersionsDir)
  /\ UNCHANGED fs
  /\ Fault
  /\ Return(p, NewCall("List", NoReq, <<>>, FALSE, FALSE), "error", "ReadDirFailed")

(***************************************************************************)
(* The Deno variant: install with --force                                  *)
(***************************************************************************)
\* install lines 186-203
installCall(p, req, force) ==
  LET key == VersionKey(req.version, req.targetOS, req.targetArch)
      versionDir == VersionDir(key)
      c == NewCall("install", req, key, Stat(fs, versionDir), force)
  IN  /\ Begin(p)
      /\ IF ~force /\ Stat(fs, versionDir)
         THEN UNCHANGED fs /\ Return(p, c, "nil", "AlreadyInstalled")
         ELSE /\ fs' = IF force THEN RemoveAll(fs, versionDir) ELSE fs
              /\ IF ~ReleaseOf(req).ok
                 THEN Return(p, c, "error", "UnsupportedPlatform")
                 ELSE Start(p, "d_download", c)

\* the catch block, lines 238-249
installCleanup(f, c) ==
  LET g == IF Stat(f, VersionDir(c.key)) THEN RemoveAll(f, VersionDir(c.key)) ELSE f
  IN  IF Stat(g, DownloadPath(c.req)) THEN Remove(g, DownloadPath(c.req)) ELSE g

installDownloadOk(p) ==
  /\ pc[p] = "d_download"
  /\ fs' = WriteFile(fs, DownloadPath(call[p].req), FileNode(<<"archive">>))
  /\ Goto(p, "d_extract", [call[p] EXCEPT !.dl = @ + 1])
  /\ UNCHANGED nfaults

RECURSIVE ExtractAll(_, _, _)
ExtractAll(f, extractPath, entries) ==
  IF entries = <<>> THEN f
  ELSE ExtractAll(ExtractOne(f, extractPath, Head(entries)), extractPath, Tail(entries))

\* extractArchive lines 153-178: tar or decompress as one command
installExtractOk(p) ==
  LET c == call[p]
  IN  /\ pc[p] = "d_extract"
      /\ fs' = Remove(ExtractAll(MkdirAll(fs, VersionDir(c.key)), VersionDir(c.key),
                                 ArchiveEntries(ReleaseOf(c.req))),
                      DownloadPath(c.req))
      /\ Goto(p, "d_flatten", [c EXCEPT !.ex = @ + 1])
      /\ UNCHANGED nfaults

RECURSIVE MoveAll(_, _, _, _)
MoveAll(f, from, to, names) ==
  IF names = <<>> THEN f
  ELSE MoveAll(Rename(f, Join(from, Head(names)), Join(to, Head(names))),
               from, to, Tail(names))

\* install lines 209-237
installFlattenOk(p) ==
  LET c == call[p]
      versionDir == VersionDir(c.key)
      ws == {n \in ReadDirNames(fs, versionDir) : IsWrapper(fs, versionDir, n)}
  IN  /\ pc[p] = "d_flatten"
      /\ fs' = IF ws = {} THEN fs
               ELSE LET w == CHOOSE n \in ws : TRUE
                        extractedPath == Join(versionDir, w)
                    IN  Remove(MoveAll(fs, extractedPath, versionDir,
                                       ReadDir(fs, extractedPath)),
                               extractedPath)
      /\ UNCHANGED nfaults
      /\ Return(p, c, "nil", "Installed")

\* any step inside the try block throws: cleanup, then rethrow
installFail(p) ==
  LET c == call[p]
  IN  /\ pc[p] \in {"d_download", "d_extract", "d_flatten"}
      /\ fs' = installCleanup(fs, c)
      /\ Fault
      /\ Return(p, [c EXCEPT !.dl = IF pc[p] = "d_download" THEN @ + 1 ELSE @,
                             !.ex = IF pc[p] = "d_extract" THEN @ + 1 ELSE @],
                "error", "InstallFailed")

(***************************************************************************)
(* main.go: extractArchive on an arbitrary archive                         *)
(***************************************************************************)
\* entries an archive may carry, harmless and crafted; linkTarget is the
\* link name of a symlink entry
EntryPool ==
  LET d(n) == [name |-> n, isDir |-> TRUE, linkTarget |-> <<>>]
      f(n) == [name |-> n, isDir |-> FALSE, linkTarget |-> <<>>]
      l(n, t) == [name |-> n, isDir |-> FALSE, linkTarget |-> t]
  IN  { d(<< <<"bin">> >>),
        f(<< <<"bin">> >>),
        l(<< <<"bin">>, <<"npm">> >>,
          << <<"..">>, <<"lib">>, <<"node_modules">>, <<"npm">>, <<"bin">>,
             <<"npm-cli.js">> >>),
        f(<< <<"bin">>, <<"node">> >>),
        d(<< <<"bin">>, <<"..">>, <<"lib">> >>),
        d(<< <<".">> >>),
        f(<< <<"..">>, <<"evil.txt">> >>),
        f(<< <<"..">>, <<"..">>, <<"current">> >>),
        f(<< <<"bin">>, <<"..">>, <<"..">>, <<"evil.txt">> >>) }

Archives == UNION {[1..n -> EntryPool] : n \in 1..MaxEntries}

ExtractKey == <<"18.17.0">>

ArchivePath == DownloadPath(ReqPool[1])

\* the tree extractArchive starts from: the archive has been downloaded,
\* another version is current
ExtractBase ==
  LET g == MkdirAll(MkdirAll(MkdirAll(<<>> :> DirNode, NVSDir), VersionsDir), BinDir)
  IN  WriteFile(WriteFile(g, ArchivePath, FileNode(<<"archive">>)),
                CurrentFile, FileNode(<<"6.17.1">>))

\* lines 265-286
extractOpen(p) ==
  /\ pc[p] = "x_open"
  /\ fs' = MkdirAll(fs, VersionDir(call[p].key))
  /\ Goto(p, "x_entry", [call[p] EXCEPT !.i = 1])
  /\ UNCHANGED nfaults

extractOpenFail(p) ==
  /\ pc[p] = "x_open"
  /\ \/ UNCHANGED fs
     \/ fs' = MkdirAll(fs, VersionDir(call[p].key))
  /\ Fault
  /\ Return(p, call[p], "error", "ExtractFailed")

\* os.MkdirAll and os.OpenFile succeed only where the path allows it: the
\* directories leading to destPath are directories, and destPath itself is
\* not already an entry of the other kind
CanWrite(f, destPath, e) ==
  /\ \A q \in Prefixes(destPath) \ {destPath} : Stat(f, q) => f[q].kind = "dir"
  /\ Stat(f, destPath) => (f[destPath].kind = "dir" <=> e.isDir)

\* the callback, lines 289-328, on entry i of the archive
extractEntry(p) ==
  LET c == call[p]
      extractPath == VersionDir(c.key)
      e == c.archive[c.i]
  IN  /\ pc[p] = "x_entry"
      /\ c.i <= Len(c.archive)
      /\ PathInside(extractPath, DestPath(extractPath, e.name))
      /\ CanWrite(fs, DestPath(extractPath, e.name), e)
      /\ fs' = ExtractOne(fs, extractPath, e)
      /\ Goto(p, "x_entry", [c EXCEPT !.i = @ + 1])
      /\ UNCHANGED nfaults

\* the callback passing over an entry that fails the security check
extractReject_SkipsEntry(p) ==
  LET c == call[p]
      extractPath == VersionDir(c.key)
  IN  /\ pc[p] = "x_entry"
      /\ c.i <= Len(c.archive)
      /\ ~PathInside(extractPath, DestPath(extractPath, c.archive[c.i].name))
      /\ UNCHANGED <<fs, nfaults>>
      /\ Goto(p, "x_entry", [c EXCEPT !.i = @ + 1])

\* lines 293-296: "Security check: prevent directory traversal"
extractReject(p) ==
  LET c == call[p]
      extractPath == VersionDir(c.key)
  IN  /\ pc[p] = "x_entry"
      /\ c.i <= Len(c.archive)
      /\ ~PathInside(extractPath, DestPath(extractPath, c.archive[c.i].name))
      /\ UNCHANGED <<fs, nfaults>>
      /\ Return(p, c, "error", "InvalidPath")

\* os.MkdirAll or os.OpenFile refuses the path of the entry
extractCollide(p) ==
  LET c == call[p]
      extractPath == VersionDir(c.key)
      e == c.archive[c.i]
  IN  /\ pc[p] = "x_entry"
      /\ c.i <= Len(c.archive)
      /\ PathInside(extractPath, DestPath(extractPath, e.name))
      /\ ~CanWrite(fs, DestPath(extractPath, e.name), e)
      /\ UNCHANGED <<fs, nfaults>>
      /\ Return(p, c, "error", "ExtractFailed")

\* an I/O error on an entry that passed the check: os.MkdirAll fails (line
\* 299 or 303), or f.Open or os.OpenFile fails after the parent directory
\* was made (308, 315), or io.Copy fails after the file was created (322)
extractEntryFail(p) ==
  LET c == call[p]
      extractPath == VersionDir(c.key)
      e == c.archive[c.i]
      destPath == DestPath(extractPath, e.name)
      parent == SubSeq(destPath, 1, Len(destPath) - 1)
  IN  /\ pc[p] = "x_entry"
      /\ c.i <= Len(c.archive)
      /\ PathInside(extractPath, destPath)
      /\ \/ UNCHANGED fs
         \/ /\ ~e.isDir
            /\ CanWrite(fs, destPath, e)
            /\ \/ fs' = MkdirAll(fs, parent)
               \/ fs' = WriteFile(MkdirAll(fs, parent), destPath, FileNode(<<"partial">>))
      /\ Fault
      /\ Return(p, c, "error", "ExtractFailed")

\* lines 330-337
extractReturn(p) ==
  LET c == call[p]
  IN  /\ pc[p] = "x_entry"
      /\ c.i > Len(c.archive)
      /\ fs' = Remove(fs, ArchivePath)
      /\ UNCHANGED nfaults
      /\ Return(p, c, "nil", "Extracted")

(***************************************************************************)
(* part_000: compareVersions and resolveVersion                            *)
(***************************************************************************)
IsDigit(ch) == ch \in {"0", "1", "2", "3", "4", "5", "6", "7", "8", "9"}

\* strconv.Atoi as [err, value]; the value is 0 when err
Atoi(s) ==
  LET digits(t) == t # <<>> /\ \A i \in 1..Len(t) : IsDigit(t[i])
  IN  IF digits(s) THEN [err |-> FALSE, value |-> DigitsValue(s)]
      ELSE IF s # <<>> /\ Head(s) = "-" /\ digits(Tail(s))
      THEN [err |-> FALSE, value |-> 0 - DigitsValue(Tail(s))]
      ELSE [err |-> TRUE, value |-> 0]

\* lines 127-139; the errors of Atoi are dropped
RECURSIVE compareParts(_, _)
compareParts(parts1, parts2) ==
  IF parts1 = <<>> \/ parts2 = <<>> THEN Len(parts1) - Len(parts2)
  ELSE LET n1 == Atoi(Head(parts1)).value
           n2 == Atoi(Head(parts2)).value
       IN  IF n1 # n2 THEN n1 - n2 ELSE compareParts(Tail(parts1), Tail(parts2))

\* the versions compared as strings, byte by byte
compareVersions_Lexical(v1, v2) ==
  IF v1 = v2 THEN 0 ELSE IF StrLess(v1, v2) THEN 0 - 1 ELSE 1

compareVersions(v1, v2) == compareParts(Split(v1, "."), Split(v2, "."))

\* regexp ^\d+\.\d+\.\d+$
IsFullSemver(s) ==
  LET parts == Split(s, ".")
  IN  /\ Len(parts) = 3
      /\ \A i \in 1..3 : parts[i] # <<>> /\ \A j \in 1..Len(parts[i]) : IsDigit(parts[i][j])

\* strings.TrimPrefix(s, "v")
TrimPrefixV(s) == IF s # <<>> /\ Head(s) = "v" THEN Tail(s) ELSE s

\* the loop keeping the first matching entry instead of the greatest
RECURSIVE LatestMatching_First(_, _, _)
LatestMatching_First(versions, partialVersion, latestVersion) ==
  IF versions = <<>> THEN latestVersion
  ELSE LET v == Head(versions)
           next == IF HasPrefix(v, <<"v">> \o partialVersion \o <<".">>)
                      /\ latestVersion = <<>>
                   THEN TrimPrefixV(v)
                   ELSE latestVersion
       IN  LatestMatching_First(Tail(versions), partialVersion, next)

\* the loop of lines 165-174 over the decoded catalog
RECURSIVE LatestMatching(_, _, _)
LatestMatching(versions, partialVersion, latestVersion) ==
  IF versions = <<>> THEN latestVersion
  ELSE LET v == Head(versions)
           version == TrimPrefixV(v)
           next == IF HasPrefix(v, <<"v">> \o partialVersion \o <<".">>)
                      /\ (latestVersion = <<>> \/ compareVersions(version, latestVersion) > 0)
                   THEN version
                   ELSE latestVersion
       IN  LatestMatching(Tail(versions), partialVersion, next)

\* resolveVersion that always consults the catalog
resolveVersion_AlwaysFetches(partialVersion, catalog) ==
  LET latestVersion == LatestMatching(catalog, partialVersion, <<>>)
  IN  IF latestVersion = <<>>
      THEN [err |-> "NotFound", value |-> <<>>, fetches |-> 1]
      ELSE [err |-> "", value |-> latestVersion, fetches |-> 1]

\* lines 142-181 given the catalog that nodejs.org/dist/index.json returns
resolveVersion(partialVersion, catalog) ==
  IF IsFullSemver(partialVersion)
  THEN [err |-> "", value |-> partialVersion, fetches |-> 0]
  ELSE LET latestVersion == LatestMatching(catalog, partialVersion, <<>>)
       IN  IF latestVersion = <<>>
           THEN [err |-> "NotFound", value |-> <<>>, fetches |-> 1]
           ELSE [err |-> "", value |-> latestVersion, fetches |-> 1]

\* what a user may type as version
Tokens ==
  { <<"1", "8", ".", "1", "7", ".", "0">>,
    <<"2", "0", ".", "1", ".", "0">>,
    <<"2", "0">>, <<"1", "8">>, <<"2">>, <<"9", "9">>,
    <<"2", "0", ".", "1">>,
    <<"2", "0", ".", "1", ".", "0", ".", "0">>,
    <<"v", "2", "0", ".", "1", ".", "0">>,
    <<"2", "0", ".", "x", ".", "0">>,
    <<"2", "0", ".", ".", "0">>,
    <<"l", "t", "s">>,
    <<"l", "a", "t", "e", "s", "t">>,
    <<"c", "u", "r", "r", "e", "n", "t">>,
    <<>> }

\* entries of the release index
CatalogPool ==
  { <<"v", "2", "0", ".", "1", ".", "0">>,
    <<"v", "2", "0", ".", "1", "9", ".", "4">>,
    <<"v", "2", "0", ".", "9", ".", "0">>,
    <<"v", "1", "8", ".", "1", "7", ".", "0">>,
    <<"v", "2", ".", "0", ".", "0">> }

\* the lts field index.json carries for these entries: a codename, or false.
\* The struct resolveVersion decodes into (lines 158-160) has no field for it.
LtsMarker(v) ==
  CASE v = <<"v", "2", "0", ".", "1", "9", ".", "4">> -> "Iron"
    [] v = <<"v", "2", "0", ".", "9", ".", "0">> -> "Iron"
    [] v = <<"v", "1", "8", ".", "1", "7", ".", "0">> -> "Hydrogen"
    [] OTHER -> "false"

\* the index in any order and with any entries missing
Catalogs ==
  {c \in UNION {[1..n -> CatalogPool] : n \in 0..MaxCatalog} :
     \A i, j \in DOMAIN c : c[i] = c[j] => i = j}

NoResolve ==
  [pc |-> "none", token |-> <<>>, catalog |-> <<>>, err |-> "", value |-> <<>>,
   fetches |-> 0]

\* resolveVersion returns without a request (lines 144-146) or after the
\* catalog was fetched and decoded
resolveReturn ==
  /\ rv.pc = "call"
  /\ LET r == resolveVersion(rv.token, rv.catalog)
     IN  rv' = [rv EXCEPT !.pc = "done", !.err = r.err, !.value = r.value,
                          !.fetches = r.fetches]
  /\ UNCHANGED <<fs, pc, call, last, nfaults>>

\* http.Get fails, the status is not 200 or the body does not decode
resolveFetchFail ==
  /\ rv.pc = "call"
  /\ ~IsFullSemver(rv.token)
  /\ rv' = [rv EXCEPT !.pc = "done", !.err = "FetchFailed", !.fetches = 1]
  /\ Fault
  /\ UNCHANGED <<fs, pc, call, last>>

(***************************************************************************)
(* part_000: Uninstall, which resolves its argument first                  *)
(***************************************************************************)
\* the release index as served, newest first
NodeDist ==
  << <<"v", "2", "0", ".", "1", "9", ".", "4">>,
     <<"v">> \o Chars("18.17.0"),
     <<"v">> \o Chars("6.17.1") >>

\* lines 184-194: the error of resolveVersion is wrapped and returned
resolveAndUpdateVersion(version, catalog) == resolveVersion(version, catalog)

\* the key whose name is the resolved string
KeyOfChars(s, version) ==
  IF \E k \in Keys : KeyChars(k) = s THEN CHOOSE k \in Keys : KeyChars(k) = s
  ELSE version

\* lines 728-739: resolve, then the not-installed check
UninstallResolveCall(p, version) ==
  LET r == resolveAndUpdateVersion(KeyChars(version), NodeDist)
      c == NewCall("Uninstall", NoReq, version, Stat(fs, VersionDir(version)), FALSE)
      key == KeyOfChars(r.value, version)
  IN  /\ Begin(p)
      /\ UNCHANGED fs
      /\ IF r.err # ""
         THEN Return(p, c, "error", "ResolveFailed")
         ELSE IF ~Stat(fs, VersionDir(key))
              THEN Return(p, c, "nil", "NotInstalled")
              ELSE Start(p, "un_remove", [c EXCEPT !.key = key])

\* the request for the release index fails (lines 148-163)
UninstallResolveFail(p, version) ==
  /\ pc[p] = "idle"
  /\ ~IsFullSemver(KeyChars(version))
  /\ UNCHANGED fs
  /\ Fault
  /\ Return(p, NewCall("Uninstall", NoReq, version, Stat(fs, VersionDir(version)), FALSE),
            "error", "ResolveFailed")

(***************************************************************************)
(* part_000: Use, which resolves its argument first and ends by writing    *)
(* the activation script                                                   *)
(***************************************************************************)
\* versions typed in part: a major with a release in the index, one without
PartialRequests ==
  { [version |-> "18", targetOS |-> "", targetArch |-> ""],
    [version |-> "99", targetOS |-> "", targetArch |-> ""] }

\* the version token whose characters are s
VersionOfChars(s, version) ==
  IF \E v \in {"18.17.0", "6.17.1"} : Chars(v) = s
  THEN CHOOSE v \in {"18.17.0", "6.17.1"} : Chars(v) = s
  ELSE version

\* the directory of what was typed, or of what it resolves to, exists
InstalledAs(f, req) ==
  LET r == resolveVersion(Chars(req.version), NodeDist)
      typed == UseVersionKey(req.version, req.targetOS, req.targetArch)
      resolved == UseVersionKey(VersionOfChars(r.value, req.version),
                                req.targetOS, req.targetArch)
  IN  Stat(f, VersionDir(typed)) \/ (r.err = "" /\ Stat(f, VersionDir(resolved)))

\* lines 462-517: resolve, key, and the two checks that print and return nil
UseResolveCall(p, req) ==
  LET r == resolveAndUpdateVersion(Chars(req.version), NodeDist)
      version == VersionOfChars(r.value, req.version)
      key == UseVersionKey(version, req.targetOS, req.targetArch)
      versionDir == VersionDir(key)
      c == NewCall("UseResolved", req, key, InstalledAs(fs, req), FALSE)
  IN  /\ Begin(p)
      /\ UNCHANGED fs
      /\ IF r.err # ""
         THEN Return(p, c, "error", "ResolveFailed")
         ELSE IF ~Stat(fs, versionDir)
              THEN Return(p, c, "nil", "NotInstalled")
              ELSE IF ~Stat(fs, BinPath(versionDir))
                   THEN Return(p, c, "nil", "InvalidInstallation")
                   ELSE Start(p, "use_write", c)

\* the request for the release index fails (lines 148-163)
UseResolveFail(p, req) ==
  LET key == UseVersionKey(req.version, req.targetOS, req.targetArch)
  IN  /\ pc[p] = "idle"
      /\ ~IsFullSemver(Chars(req.version))
      /\ UNCHANGED fs
      /\ Fault
      /\ Return(p, NewCall("UseResolved", req, key, InstalledAs(fs, req), FALSE),
                "error", "ResolveFailed")

ActivatePath == Join(NVSDir, <<"activate", ".sh">>)

\* lines 540-559: the notice, then createActivationScript (lines 613-643)
UseActivateOk(p) ==
  /\ pc[p] = "links"
  /\ call[p].op = "UseResolved"
  /\ call[p].i > Len(binaries)
  /\ fs' = WriteFile(fs, ActivatePath, FileNode(<<"export PATH">>))
  /\ UNCHANGED nfaults
  /\ Return(p, call[p], "nil", "Switched")

\* os.WriteFile of the activation script fails
UseActivateFail(p) ==
  /\ pc[p] = "links"
  /\ call[p].op = "UseResolved"
  /\ call[p].i > Len(binaries)
  /\ UNCHANGED fs
  /\ Fault
  /\ Return(p, call[p], "error", "ActivateFailed")

(***************************************************************************)
(* main.go: two shells running Use at the same time.  Nothing in Use takes *)
(* a lock, so the statements of the two processes interleave freely; each  *)
(* call to package os is one step.                                         *)
(***************************************************************************)
RaceProcs == {1, 2}

RaceRequests == {ReqPool[1], ReqPool[2]}

\* the tree a successful Install of req leaves (lines 379-437)
Installed(f, req) ==
  LET versionDir == VersionDir(VersionKey(req.version, req.targetOS, req.targetArch))
      rel == ReleaseOf(req)
      extractedPath == Join(versionDir, WrapperName(rel))
      g == ExtractAll(MkdirAll(f, versionDir), versionDir, ArchiveEntries(rel))
  IN  fixNpmSymlinks(Remove(MoveAll(g, extractedPath, versionDir,
                                    ReadDir(g, extractedPath)),
                            extractedPath),
                     versionDir)

\* the tree a successful Use of key leaves (lines 531-539)
Switched(f, key) ==
  LET binPath == BinPath(VersionDir(key))
      g == MkdirAll(RemoveAll(WriteFile(f, CurrentFile, FileNode(key)), LinkDir), LinkDir)
  IN  LinkOne(LinkOne(LinkOne(g, binPath, "node"), binPath, "npm"), binPath, "npx")

\* both versions installed
RaceBase ==
  Installed(Installed(MkdirAll(MkdirAll(MkdirAll(<<>> :> DirNode, NVSDir),
                                        VersionsDir), BinDir),
                      ReqPool[1]),
            ReqPool[2])

\* writer: the process that wrote the pointer last; writes: how often it
\* was written; key, ret: each call's key and what it returned
NoRace ==
  [writer |-> 0, writes |-> 0, key |-> [p \in RaceProcs |-> <<>>],
   ret |-> [p \in RaceProcs |-> "running"]]

raceGoto(p, label, c) ==
  /\ pc' = [pc EXCEPT ![p] = label]
  /\ call' = [call EXCEPT ![p] = c]
  /\ UNCHANGED <<last, nfaults>>

raceReturn(p, ret, out) ==
  LET c == call[p]
  IN  /\ pc' = [pc EXCEPT ![p] = "idle"]
      /\ call' = [call EXCEPT ![p] = NoCall]
      /\ last' = [op |-> c.op, req |-> c.req, key |-> c.key, ret |-> ret, out |-> out,
                  dl |-> c.dl, ex |-> c.ex, pre |-> c.pre, force |-> c.force,
                  cur |-> c.cur, list |-> c.list, archive |-> c.archive]
      /\ rv' = [rv EXCEPT !.ret[p] = ret]
      /\ UNCHANGED nfaults

\* the first writer's key is kept
raceWrite_FirstWins(p) ==
  /\ pc[p] = "use_write"
  /\ fs' = IF Stat(fs, CurrentFile) /\ rv.writes > 0 THEN fs
           ELSE WriteFile(fs, CurrentFile, FileNode(call[p].key))
  /\ rv' = [rv EXCEPT !.writer = p, !.writes = @ + 1]
  /\ raceGoto(p, "links_reset", call[p])

\* line 532: os.WriteFile(nvs.CurrentFile, versionKey)
raceWrite(p) ==
  /\ pc[p] = "use_write"
  /\ fs' = WriteFile(fs, CurrentFile, FileNode(call[p].key))
  /\ rv' = [rv EXCEPT !.writer = p, !.writes = @ + 1]
  /\ raceGoto(p, "links_reset", call[p])

\* line 693: os.RemoveAll(linkDir)
raceRemoveLinks(p) ==
  /\ pc[p] = "links_reset"
  /\ fs' = RemoveAll(fs, LinkDir)
  /\ UNCHANGED rv
  /\ raceGoto(p, "links_mkdir", call[p])

\* line 694: os.MkdirAll(linkDir)
raceMkdirLinks(p) ==
  /\ pc[p] = "links_mkdir"
  /\ fs' = MkdirAll(fs, LinkDir)
  /\ UNCHANGED rv
  /\ raceGoto(p, "links", [call[p] EXCEPT !.i = 1])

\* lines 702-735 for one binary.  os.Symlink fails when the other process
\* has already made the link; the fallback os.WriteFile then opens the link
\* and writes the script into the file the link names.
raceLink(p) ==
  LET c == call[p]
      sourcePath == Join(BinPath(VersionDir(c.key)), <<binaries[c.i]>>)
      linkPath == Join(LinkDir, <<binaries[c.i]>>)
  IN  /\ pc[p] = "links"
      /\ c.i <= Len(binaries)
      /\ Stat(fs, sourcePath) => Stat(fs, LinkDir)
      /\ fs' = IF ~Stat(fs, sourcePath) THEN fs
               ELSE IF ~Stat(fs, linkPath)
               THEN WriteFile(fs, linkPath, ShimNode(sourcePath))
               ELSE WriteFile(fs, fs[linkPath].target, ShimNode(sourcePath))
      /\ UNCHANGED rv
      /\ raceGoto(p, "links", [c EXCEPT !.i = @ + 1])

\* the other process removed current-bin: os.Symlink and os.WriteFile both
\* fail and createVersionLinks returns the error (line 729)
raceLinkFail(p) ==
  LET c == call[p]
      sourcePath == Join(BinPath(VersionDir(c.key)), <<binaries[c.i]>>)
  IN  /\ pc[p] = "links"
      /\ c.i <= Len(binaries)
      /\ Stat(fs, sourcePath)
      /\ ~Stat(fs, LinkDir)
      /\ UNCHANGED fs
      /\ raceReturn(p, "error", "LinkFailed")

\* lines 541-561
raceFinish(p) ==
  /\ pc[p] = "links"
  /\ call[p].i > Len(binaries)
  /\ UNCHANGED fs
  /\ raceReturn(p, "nil", "Switched")

(***************************************************************************)
(* main.go: the version key and the release descriptor on their own, for   *)
(* any version, target OS and target architecture                          *)
(***************************************************************************)
ReleaseVersions == {"18.17.0", "6.17.1"}

TargetOSes ==
  {"", "windows", "win", "darwin", "macos", "linux", "bogus", "freebsd", "Linux"}

TargetArches ==
  {"", "x86_64", "amd64", "aarch64", "arm64", "x86", "i386", "ia32", "386",
   "x64", "riscv64"}

\* getNodeRelease returned nil
NoDescriptor ==
  [ok |-> FALSE, Version |-> "", URL |-> <<>>, Filename |-> <<>>, Ext |-> "",
   platformName |-> "", archName |-> ""]

NoRelease ==
  [pc |-> "none", version |-> "", targetOS |-> "", targetArch |-> "",
   installKey |-> <<>>, useKey |-> <<>>, err |-> "", release |-> NoDescriptor]

\* Install lines 353-367 and Use lines 481-495 on the same arguments
keysComputed ==
  /\ rv.pc = "call"
  /\ rv' = [rv EXCEPT !.pc = "release",
                      !.installKey = VersionKey(rv.version, rv.targetOS, rv.targetArch),
                      !.useKey = UseVersionKey(rv.version, rv.targetOS, rv.targetArch)]
  /\ UNCHANGED <<fs, pc, call, last, nfaults>>

\* getNodeRelease returns a descriptor (lines 216-222)
releaseReturn ==
  LET r == getNodeRelease(rv.version, rv.targetOS, rv.targetArch)
  IN  /\ rv.pc = "release"
      /\ r.ok
      /\ rv' = [rv EXCEPT !.pc = "done", !.release = r]
      /\ UNCHANGED <<fs, pc, call, last, nfaults>>

\* getNodeRelease returns nil and "unsupported platform" (line 198)
releaseUnsupported ==
  LET r == getNodeRelease(rv.version, rv.targetOS, rv.targetArch)
  IN  /\ rv.pc = "release"
      /\ ~r.ok
      /\ rv' = [rv EXCEPT !.pc = "done", !.err = "UnsupportedPlatform"]
      /\ UNCHANGED <<fs, pc, call, last, nfaults>>

(***************************************************************************)
(* Specification: one process issuing commands one after the other         *)
(***************************************************************************)
Init ==
  /\ fs = MkdirAll(MkdirAll(MkdirAll(<<>> :> DirNode, NVSDir), VersionsDir), BinDir)
  /\ pc = [p \in Procs |-> "idle"]
  /\ call = [p \in Procs |-> NoCall]
  /\ last = NoLast
  /\ nfaults = 0
  /\ rv = NoResolve

\* the Go command line program, main.go
Next ==
  \E p \in Procs :
    \/ \E req \in Requests : InstallCall(p, req)
    \/ DownloadOk(p)
    \/ DownloadFailNoFile(p)
    \/ DownloadFailPartial(p)
    \/ ExtractOpenOk(p)
    \/ ExtractOpenFail(p)
    \/ ExtractEntryOk(p)
    \/ ExtractEntryFail(p)
    \/ ExtractDone(p)
    \/ FlattenScanOk(p)
    \/ FlattenScanFail(p)
    \/ FlattenMoveOk(p)
    \/ FlattenMoveFail(p)
    \/ InstallFinish(p)
    \/ \E req \in Requests : UseCall(p, req)
    \/ UseWriteOk(p)
    \/ UseWriteFail(p)
    \/ LinksResetOk(p)
    \/ LinksResetFail(p)
    \/ LinkCreate(p)
    \/ LinkCreateFail(p)
    \/ UseFinish(p)
    \/ Current(p)
    \/ List(p)
    \/ ListFail(p)
    \/ \E version \in Keys : UninstallCall(p, version)
    \/ UninstallRemoveOk(p)
    \/ UninstallRemoveFail(p)
    \/ UninstallClear(p)

Spec == Init /\ [][Next]_vars

\* the same directory also driven by the Deno script, whose install takes --force
installNext ==
  \E p \in Procs :
    \/ \E req \in Requests, force \in BOOLEAN : installCall(p, req, force)
    \/ installDownloadOk(p)
    \/ installExtractOk(p)
    \/ installFlattenOk(p)
    \/ installFail(p)

NextDeno == Next \/ installNext

SpecDeno == Init /\ [][NextDeno]_vars

\* the same directory also driven by the variant whose Uninstall resolves
\* the version it is given
NextResolving ==
  \/ Next
  \/ \E p \in Procs, version \in Keys :
       \/ UninstallResolveCall(p, version)
       \/ UninstallResolveFail(p, version)
  \/ \E p \in Procs :
       \/ \E req \in Requests \cup PartialRequests : UseResolveCall(p, req)
       \/ \E req \in PartialRequests : UseResolveFail(p, req)
       \/ UseActivateOk(p)
       \/ UseActivateFail(p)

SpecResolving == Init /\ [][NextResolving]_vars

\* extractArchive alone, given any archive of at most MaxEntries entries
InitExtract ==
  /\ fs = ExtractBase
  /\ pc = [p \in Procs |-> "x_open"]
  /\ \E a \in Archives :
       call = [p \in Procs |->
                 [NoCall EXCEPT !.op = "extractArchive", !.req = ReqPool[1],
                                !.key = ExtractKey, !.archive = a]]
  /\ last = NoLast
  /\ nfaults = 0
  /\ rv = NoResolve

NextExtract ==
  \E p \in Procs :
    \/ extractOpen(p)
    \/ extractOpenFail(p)
    \/ extractEntry(p)
    \/ extractReject(p)
    \/ extractCollide(p)
    \/ extractEntryFail(p)
    \/ extractReturn(p)

SpecExtract == InitExtract /\ [][NextExtract]_vars

\* resolveVersion alone, given any token and any catalog
InitResolve ==
  /\ fs = MkdirAll(MkdirAll(MkdirAll(<<>> :> DirNode, NVSDir), VersionsDir), BinDir)
  /\ pc = [p \in Procs |-> "idle"]
  /\ call = [p \in Procs |-> NoCall]
  /\ last = NoLast
  /\ nfaults = 0
  /\ \E t \in Tokens, c \in Catalogs :
       rv = [NoResolve EXCEPT !.pc = "call", !.token = t, !.catalog = c]

NextResolve == resolveReturn \/ resolveFetchFail

SpecResolve == InitResolve /\ [][NextResolve]_vars

\* the key and the descriptor alone, given any arguments
InitRelease ==
  /\ fs = MkdirAll(MkdirAll(MkdirAll(<<>> :> DirNode, NVSDir), VersionsDir), BinDir)
  /\ pc = [p \in Procs |-> "idle"]
  /\ call = [p \in Procs |-> NoCall]
  /\ last = NoLast
  /\ nfaults = 0
  /\ \E v \in ReleaseVersions, os \in TargetOSes, arch \in TargetArches :
       rv = [NoRelease EXCEPT !.pc = "call", !.version = v, !.targetOS = os,
                              !.targetArch = arch]

NextRelease == keysComputed \/ releaseReturn \/ releaseUnsupported

SpecRelease == InitRelease /\ [][NextRelease]_vars

\* two Use calls that have passed the checks of lines 497-529 (which read
\* only the version directories, and no Use changes those on purpose); the
\* pointer is absent or left by an earlier Use
InitRace ==
  \E r1, r2 \in RaceRequests :
    \E start \in {RaceBase} \cup
                 {Switched(RaceBase, UseVersionKey(r.version, r.targetOS, r.targetArch)) :
                    r \in RaceRequests} :
      LET use(r) == [NoCall EXCEPT !.op = "Use", !.req = r, !.pre = TRUE,
                                   !.key = UseVersionKey(r.version, r.targetOS, r.targetArch),
                                   !.cur = getCurrentVersion(start)]
      IN  /\ fs = start
          /\ pc = [p \in RaceProcs |-> "use_write"]
          /\ call = <<use(r1), use(r2)>>
          /\ last = NoLast
          /\ nfaults = 0
          /\ rv = [NoRace EXCEPT !.key = <<use(r1).key, use(r2).key>>]

raceProc(p) ==
  \/ raceWrite(p)
  \/ raceRemoveLinks(p)
  \/ raceMkdirLinks(p)
  \/ raceLink(p)
  \/ raceLinkFail(p)
  \/ raceFinish(p)

NextRace == \E p \in RaceProcs : raceProc(p)

\* each shell is a process of its own and keeps being scheduled
SpecRace == InitRace /\ [][NextRace]_vars /\ \A p \in RaceProcs : WF_vars(raceProc(p))

(***************************************************************************)
(* part_000: compareVersions alone, on three dotted numeric versions       *)
(***************************************************************************)
MaxParts == 2

\* components with one digit, two digits and a leading zero
ComponentPool == { <<"9">>, <<"1", "9">>, <<"0", "9">> }

RECURSIVE JoinDots(_)
JoinDots(parts) ==
  IF Len(parts) = 1 THEN parts[1]
  ELSE parts[1] \o <<".">> \o JoinDots(Tail(parts))

VersionPool ==
  {JoinDots(ps) : ps \in UNION {[1..n -> ComponentPool] : n \in 1..MaxParts}}
  \cup { <<"2", "0", ".", "1", "9", ".", "4">>, <<"2", "0", ".", "9", ".", "0">> }

NoCompare == [pc |-> "none", a |-> <<>>, b |-> <<>>, c |-> <<>>,
              ab |-> 0, ba |-> 0, bc |-> 0, ac |-> 0]

\* compareVersions is called on each pair
compareReturn ==
  /\ rv.pc = "call"
  /\ rv' = [rv EXCEPT !.pc = "done",
                      !.ab = compareVersions(rv.a, rv.b),
                      !.ba = compareVersions(rv.b, rv.a),
                      !.bc = compareVersions(rv.b, rv.c),
                      !.ac = compareVersions(rv.a, rv.c)]
  /\ UNCHANGED <<fs, pc, call, last, nfaults>>

InitCompare ==
  /\ fs = MkdirAll(MkdirAll(MkdirAll(<<>> :> DirNode, NVSDir), VersionsDir), BinDir)
  /\ pc = [p \in Procs |-> "idle"]
  /\ call = [p \in Procs |-> NoCall]
  /\ last = NoLast
  /\ nfaults = 0
  /\ \E a \in VersionPool, b \in VersionPool, c \in VersionPool :
       rv = [NoCompare EXCEPT !.pc = "call", !.a = a, !.b = b, !.c = c]

NextCompare == compareReturn

SpecCompare == InitCompare /\ [][NextCompare]_vars

(***************************************************************************)
(* part_003: the interactive interface.  rv.m is the bubbletea model,      *)
(* rv.tasks the task commands that are running, rv.loads the number of     *)
(* loadVersionsCmd commands that are running, rv.msgs the messages they    *)
(* have sent and Update has not yet received.  The spinner and the window  *)
(* size only affect rendering and are left out.                            *)
(***************************************************************************)
MaxTasks == 2

MaxInput == 1

MenuItems == <<"install", "use", "list", "uninstall", "setup", "help", "exit">>

TuiKeys == {"up", "down", "enter", "esc", "ctrl+c", "q", "j", "k", " ", "8"}

\* the versions the tasks of a session install
TuiVersions ==
  {VersionKey(ReqPool[i].version, ReqPool[i].targetOS, ReqPool[i].targetArch) :
     i \in 1..2}

SelectViews == {"viewSelectVersion", "viewSelectUninstall", "viewListVersions"}

initialModel ==
  [state |-> "viewMainMenu", cursor |-> 0, installedVersions |-> <<>>,
   currentVersion |-> <<>>, textInput |-> <<>>, quitting |-> FALSE]

NoCmd == [kind |-> "nil", version |-> <<>>]

TaskKinds == {"install", "use", "uninstall", "setup"}

\* goBack leaving the processing view as well
goBack_FromProcessing(m) ==
  IF m.state # "viewMainMenu"
  THEN [m |-> [m EXCEPT !.state = "viewMainMenu", !.cursor = 0, !.textInput = <<>>],
        cmd |-> NoCmd]
  ELSE [m |-> m, cmd |-> NoCmd]

\* lines 338-345
goBack(m) ==
  IF m.state # "viewMainMenu" /\ m.state # "viewProcessing"
  THEN [m |-> [m EXCEPT !.state = "viewMainMenu", !.cursor = 0, !.textInput = <<>>],
        cmd |-> NoCmd]
  ELSE [m |-> m, cmd |-> NoCmd]

\* lines 347-407
executeAction(m) ==
  LET action == MenuItems[m.cursor + 1]
      select(view) ==
        IF Len(m.installedVersions) = 0
        THEN [m |-> [m EXCEPT !.state = "viewResult"], cmd |-> NoCmd]
        ELSE [m |-> [m EXCEPT !.state = view, !.cursor = 0], cmd |-> NoCmd]
  IN  CASE action = "install" ->
             [m |-> [m EXCEPT !.state = "viewInstallInput", !.textInput = <<>>],
              cmd |-> NoCmd]
        [] action = "use" -> select("viewSelectVersion")
        [] action = "list" -> select("viewListVersions")
        [] action = "uninstall" -> select("viewSelectUninstall")
        [] action = "setup" ->
             [m |-> [m EXCEPT !.state = "viewProcessing"],
              cmd |-> [kind |-> "setup", version |-> <<>>]]
        [] action = "help" -> [m |-> [m EXCEPT !.state = "viewResult"], cmd |-> NoCmd]
        [] action = "exit" -> [m |-> [m EXCEPT !.quitting = TRUE],
                               cmd |-> [kind |-> "quit", version |-> <<>>]]

\* lines 264-291
handleMainMenu(m, key) ==
  CASE key \in {"up", "k"} ->
         [m |-> IF m.cursor > 0 THEN [m EXCEPT !.cursor = @ - 1] ELSE m, cmd |-> NoCmd]
    [] key \in {"down", "j"} ->
         [m |-> IF m.cursor < Len(MenuItems) - 1 THEN [m EXCEPT !.cursor = @ + 1] ELSE m,
          cmd |-> NoCmd]
    [] key \in {"enter", " "} -> executeAction(m)
    [] OTHER -> [m |-> m, cmd |-> NoCmd]

\* lines 293-336
handleVersionSelect(m, key) ==
  LET selectVersion ==
        IF Len(m.installedVersions) > 0 /\ m.cursor < Len(m.installedVersions)
        THEN LET version == m.installedVersions[m.cursor + 1]
             IN  [m |-> [m EXCEPT !.state = "viewProcessing"],
                  cmd |-> [kind |-> IF m.state \in {"viewSelectVersion", "viewListVersions"}
                                    THEN "use" ELSE "uninstall",
                           version |-> version]]
        ELSE [m |-> m, cmd |-> NoCmd]
  IN  CASE key \in {"up", "k"} ->
             [m |-> IF m.cursor > 0 THEN [m EXCEPT !.cursor = @ - 1] ELSE m, cmd |-> NoCmd]
        [] key \in {"down", "j"} ->
             [m |-> IF m.cursor < Len(m.installedVersions) - 1
                    THEN [m EXCEPT !.cursor = @ + 1] ELSE m,
              cmd |-> NoCmd]
        [] key \in {"enter", " "} -> selectVersion
        [] OTHER -> [m |-> m, cmd |-> NoCmd]

\* lines 232-262
handleKeyPress(m, key) ==
  IF key = "ctrl+c"
  THEN [m |-> [m EXCEPT !.quitting = TRUE], cmd |-> [kind |-> "quit", version |-> <<>>]]
  ELSE IF key = "esc" THEN goBack(m)
  ELSE IF key = "q" /\ m.state = "viewMainMenu"
  THEN [m |-> [m EXCEPT !.quitting = TRUE], cmd |-> [kind |-> "quit", version |-> <<>>]]
  ELSE CASE m.state = "viewMainMenu" -> handleMainMenu(m, key)
         [] m.state \in SelectViews -> handleVersionSelect(m, key)
         [] m.state = "viewResult" ->
              [m |-> IF key \in {"enter", " "}
                     THEN [m EXCEPT !.state = "viewMainMenu", !.cursor = 0] ELSE m,
               cmd |-> NoCmd]
         [] OTHER -> [m |-> m, cmd |-> NoCmd]

\* textinput.Update: a printable key is appended while there is room
textInputUpdate(value, key) ==
  IF key \in {"q", "j", "k", " ", "8"} /\ Len(value) < MaxInput
  THEN Append(value, key) ELSE value

\* Update on a tea.KeyMsg, lines 181-208
UpdateKey(m, key) ==
  IF m.state = "viewInstallInput"
  THEN CASE key = "ctrl+c" ->
              [m |-> [m EXCEPT !.quitting = TRUE],
               cmd |-> [kind |-> "quit", version |-> <<>>]]
         [] key = "esc" -> goBack(m)
         [] key = "enter" ->
              LET version == TrimSpace(m.textInput)
              IN  IF version # <<>>
                  THEN [m |-> [m EXCEPT !.state = "viewProcessing"],
                        cmd |-> [kind |-> "install", version |-> version]]
                  ELSE [m |-> m, cmd |-> NoCmd]
         [] OTHER -> [m |-> [m EXCEPT !.textInput = textInputUpdate(@, key)],
                      cmd |-> NoCmd]
  ELSE handleKeyPress(m, key)

\* Update on the messages of the commands, lines 217-227
UpdateMsg(m, msg) ==
  IF msg.type = "versionsLoadedMsg"
  THEN [m |-> [m EXCEPT !.installedVersions = msg.versions,
                        !.currentVersion = msg.current],
        cmd |-> NoCmd]
  ELSE [m |-> [m EXCEPT !.state = "viewResult"],
        cmd |-> [kind |-> "load", version |-> <<>>]]

\* os.ReadDir returns the names in byte order
RECURSIVE SortNames(_)
SortNames(S) ==
  IF S = {} THEN <<>>
  ELSE LET first == CHOOSE a \in S : \A b \in S \ {a} : StrLess(KeyChars(a), KeyChars(b))
       IN  <<first>> \o SortNames(S \ {first})

\* loadVersionsCmd, lines 562-581
loadVersions(f) ==
  [type |-> "versionsLoadedMsg", success |-> TRUE,
   versions |-> SortNames(ListVersions(f)),
   current |-> getCurrentVersion(f).value]

taskDoneMsg(success) ==
  [type |-> "taskDoneMsg", success |-> success, versions |-> <<>>, current |-> <<>>]

NoTui == [m |-> initialModel, tasks |-> <<>>, loads |-> 0, msgs |-> <<>>, started |-> 0]

\* the runtime hands a key to Update and starts the command it returns
tuiKey ==
  \E key \in TuiKeys :
    LET r == UpdateKey(rv.m, key)
    IN  /\ ~rv.m.quitting
        /\ r.cmd.kind \in TaskKinds => rv.started < MaxTasks
        /\ rv' = [rv EXCEPT !.m = r.m,
                            !.tasks = IF r.cmd.kind \in TaskKinds
                                      THEN Append(@, r.cmd) ELSE @,
                            !.started = IF r.cmd.kind \in TaskKinds THEN @ + 1 ELSE @]
        /\ UNCHANGED <<fs, pc, call, last, nfaults>>

\* what a task leaves under versions/ and in the pointer when it succeeds
TaskDone(f, task, k) ==
  CASE task.kind = "install" -> MkdirAll(f, VersionDir(k))
    [] task.kind = "use" -> WriteFile(f, CurrentFile, FileNode(task.version))
    [] task.kind = "uninstall" -> RemoveAll(f, VersionDir(task.version))
    [] task.kind = "setup" -> f

\* installCmd, useCmd, uninstallCmd, setupCmd (lines 583-631): the command
\* runs to its end and sends taskDoneMsg; a failed install may leave the
\* directory it had begun
tuiTaskRun ==
  \E i \in DOMAIN rv.tasks, ok \in BOOLEAN, k \in TuiVersions :
    LET task == rv.tasks[i]
        rest == [j \in 1..(Len(rv.tasks) - 1) |->
                   IF j < i THEN rv.tasks[j] ELSE rv.tasks[j + 1]]
    IN  /\ ~rv.m.quitting
        /\ fs' \in IF ok THEN {TaskDone(fs, task, k)}
                   ELSE IF task.kind = "install" THEN {fs, TaskDone(fs, task, k)}
                   ELSE {fs}
        /\ rv' = [rv EXCEPT !.tasks = rest, !.msgs = Append(@, taskDoneMsg(ok))]
        /\ UNCHANGED <<pc, call, last, nfaults>>

\* a loadVersionsCmd reads the directory and sends versionsLoadedMsg
tuiLoadRun ==
  /\ ~rv.m.quitting
  /\ rv.loads > 0
  /\ rv' = [rv EXCEPT !.loads = @ - 1, !.msgs = Append(@, loadVersions(fs))]
  /\ UNCHANGED <<fs, pc, call, last, nfaults>>

\* the runtime hands the oldest message to Update
tuiDeliver ==
  /\ ~rv.m.quitting
  /\ rv.msgs # <<>>
  /\ LET r == UpdateMsg(rv.m, Head(rv.msgs))
     IN  rv' = [rv EXCEPT !.m = r.m, !.msgs = Tail(@),
                          !.loads = IF r.cmd.kind = "load" THEN @ + 1 ELSE @]
  /\ UNCHANGED <<fs, pc, call, last, nfaults>>

\* Init (lines 162-167): the first loadVersionsCmd is running; any of the
\* versions may have been installed before
InitTui ==
  /\ \E S \in SUBSET TuiVersions :
       fs = [q \in DOMAIN MkdirAll(MkdirAll(MkdirAll(<<>> :> DirNode, NVSDir), VersionsDir), BinDir)
                   \cup {VersionDir(k) : k \in S} |-> DirNode]
  /\ pc = [p \in Procs |-> "idle"]
  /\ call = [p \in Procs |-> NoCall]
  /\ last = NoLast
  /\ nfaults = 0
  /\ rv = [NoTui EXCEPT !.loads = 1]

NextTui == tuiKey \/ tuiTaskRun \/ tuiLoadRun \/ tuiDeliver

SpecTui == InitTui /\ [][NextTui]_vars

(***************************************************************************)
(* part_001: the installer's detection of an existing installation, on any *)
(* layout of ~/.nvs.  rv.Version is the version the installer was built    *)
(* with.                                                                   *)
(***************************************************************************)
CLIPath == Join(BinDir, <<"nvs">>)

UIPath == Join(BinDir, <<"nvs-ui">>)

VersionFile == Join(NVSDir, <<"version">>)

\* lines 86-92: the path exists and is not a directory
fileExists(f, path) == Stat(f, path) /\ f[path].kind # "dir"

\* lines 95-109, as [err, value]
getInstalledVersion(f) ==
  IF Stat(f, VersionFile) /\ f[VersionFile].kind = "file"
  THEN [err |-> FALSE, value |-> f[VersionFile].text]
  ELSE IF fileExists(f, CLIPath)
  THEN [err |-> FALSE, value |-> <<"unknown">>]
  ELSE [err |-> TRUE, value |-> <<>>]

\* lines 56-83
DetectInstallation(f, Version) ==
  LET cliExists == fileExists(f, CLIPath)
      uiExists == fileExists(f, UIPath)
      installed == getInstalledVersion(f)
  IN  IF ~Stat(f, NVSDir)
      THEN [state |-> "StateNotInstalled", version |-> <<>>, err |-> FALSE]
      ELSE IF ~cliExists /\ ~uiExists
      THEN [state |-> "StateCorrupted", version |-> <<>>, err |-> TRUE]
      ELSE IF installed.err
      THEN [state |-> "StateCorrupted", version |-> <<>>, err |-> TRUE]
      ELSE IF installed.value # Version /\ Version # <<"dev">>
      THEN [state |-> "StateOutdated", version |-> installed.value, err |-> FALSE]
      ELSE [state |-> "StateInstalled", version |-> installed.value, err |-> FALSE]

BuildVersions == { <<"dev">>, <<"1.2.0">> }

\* what may stand at the place of a binary or of the version file
NodeChoices(texts) == {"absent", "dir"} \cup texts

Place(f, path, choice) ==
  IF choice = "absent" THEN f
  ELSE IF choice = "dir" THEN MkdirAll(f, path)
  ELSE WriteFile(MkdirAll(f, SubSeq(path, 1, Len(path) - 1)), path, FileNode(<<choice>>))

Layouts ==
  { [q \in {} |-> DirNode] } \cup
  { Place(Place(Place(<<>> :> DirNode, CLIPath, cli), UIPath, ui), VersionFile, v) :
      cli \in NodeChoices({"binary"}), ui \in NodeChoices({"binary"}),
      v \in NodeChoices({"dev", "1.2.0", "1.1.0"}) }

NoDetect == [pc |-> "none", Version |-> <<>>, state |-> "", version |-> <<>>, err |-> FALSE]

detectReturn ==
  LET r == DetectInstallation(fs, rv.Version)
  IN  /\ rv.pc = "call"
      /\ rv' = [rv EXCEPT !.pc = "done", !.state = r.state, !.version = r.version,
                          !.err = r.err]
      /\ UNCHANGED <<fs, pc, call, last, nfaults>>

InitDetect ==
  /\ fs \in Layouts
  /\ pc = [p \in Procs |-> "idle"]
  /\ call = [p \in Procs |-> NoCall]
  /\ last = NoLast
  /\ nfaults = 0
  /\ \E v \in BuildVersions : rv = [NoDetect EXCEPT !.pc = "call", !.Version = v]

NextDetect == detectReturn

SpecDetect == InitDetect /\ [][NextDetect]_vars

(***************************************************************************)
(* binary_downloader.go: findPlatformAssets alone, on any list of release  *)
(* assets.  rv.perIteration tells whether the build gives every iteration  *)
(* of a range loop its own variable (Go 1.22 and later with a matching go  *)
(* directive) or shares one variable among all iterations (the Go 1.21 of  *)
(* the release workflow).                                                  *)
(***************************************************************************)
MaxAssets == 3

\* strings.ToLower on the letters that occur in asset names
ToLowerChar(ch) ==
  CASE ch = "N" -> "n" [] ch = "V" -> "v" [] ch = "S" -> "s" [] ch = "U" -> "u"
    [] ch = "I" -> "i" [] OTHER -> ch

ToLower(s) == [i \in 1..Len(s) |-> ToLowerChar(s[i])]

\* strings.Contains
Contains(s, substr) ==
  \E i \in 1..(Len(s) - Len(substr) + 1) : SubSeq(s, i, i + Len(substr) - 1) = substr

\* lines 157-180
getPlatformIdentifier(goos, goarch) ==
  LET arch == IF goarch = "amd64" THEN "x64" ELSE goarch
      os == IF goos = "darwin" THEN "macos" ELSE goos
  IN  Chars(os) \o <<"-">> \o Chars(arch)

AssetPool ==
  { [Name |-> <<"n", "v", "s", "-", "c", "l", "i", "-", "l", "i", "n", "u", "x", "-", "x", "6", "4">>],
    [Name |-> <<"N", "V", "S", "-", "U", "I", "-", "l", "i", "n", "u", "x", "-", "x", "6", "4">>],
    [Name |-> <<"n", "v", "s", "-", "c", "l", "i", "-", "w", "i", "n", "d", "o", "w", "s", "-", "x", "6", "4">>],
    [Name |-> <<"n", "v", "s", "-", "u", "i", "-", "w", "i", "n", "d", "o", "w", "s", "-", "x", "6", "4">>],
    [Name |-> <<"c", "h", "e", "c", "k", "s", "u", "m", "s", ".", "t", "x", "t">>] }

AssetLists == UNION {[1..n -> AssetPool] : n \in 0..MaxAssets}

NoAsset == [Name |-> <<>>]

IsCLIAsset(asset, platform) ==
  Contains(ToLower(asset.Name), <<"n", "v", "s", "-", "c", "l", "i">>) /\ Contains(ToLower(asset.Name), platform)

IsUIAsset(asset, platform) ==
  Contains(ToLower(asset.Name), <<"n", "v", "s", "-", "u", "i">>) /\ Contains(ToLower(asset.Name), platform)

\* lines 118-154: cli and ui are set to &asset in every matching iteration;
\* what they point at when the function returns is the asset of the last
\* matching iteration when each iteration has its own variable, and the one
\* shared variable, which holds the last asset of the list, otherwise
findPlatformAssets(assets, platform, perIteration) ==
  LET matching(is(_, _)) == {i \in DOMAIN assets : is(assets[i], platform)}
      pointee(S) == IF S = {} THEN NoAsset
                    ELSE IF perIteration
                    THEN assets[CHOOSE i \in S : \A j \in S : j <= i]
                    ELSE assets[Len(assets)]
      cli == pointee(matching(IsCLIAsset))
      ui == pointee(matching(IsUIAsset))
  IN  IF cli = NoAsset THEN [err |-> "CLINotFound", cli |-> NoAsset, ui |-> NoAsset]
      ELSE IF ui = NoAsset THEN [err |-> "GUINotFound", cli |-> NoAsset, ui |-> NoAsset]
      ELSE [err |-> "", cli |-> cli, ui |-> ui]

NoFind == [pc |-> "none", assets |-> <<>>, perIteration |-> FALSE, err |-> "",
           cli |-> NoAsset, ui |-> NoAsset]

findReturn ==
  LET r == findPlatformAssets(rv.assets, getPlatformIdentifier(GOOS, GOARCH),
                              rv.perIteration)
  IN  /\ rv.pc = "call"
      /\ rv' = [rv EXCEPT !.pc = "done", !.err = r.err, !.cli = r.cli, !.ui = r.ui]
      /\ UNCHANGED <<fs, pc, call, last, nfaults>>

InitFind ==
  /\ fs = MkdirAll(MkdirAll(MkdirAll(<<>> :> DirNode, NVSDir), VersionsDir), BinDir)
  /\ pc = [p \in Procs |-> "idle"]
  /\ call = [p \in Procs |-> NoCall]
  /\ last = NoLast
  /\ nfaults = 0
  /\ \E assets \in AssetLists, perIteration \in BOOLEAN :
       rv = [NoFind EXCEPT !.pc = "call", !.assets = assets,
                           !.perIteration = perIteration]

NextFind == findReturn

SpecFind == InitFind /\ [][NextFind]_vars

(***************************************************************************)
(* What the claims observe                                                 *)
(***************************************************************************)
Idle == \A p \in Procs : pc[p] = "idle"

\* the part of the tree at and below dir
Under(f, dir) == [q \in {r \in DOMAIN f : IsPrefix(dir, r)} |-> f[q]]

\* the files directly inside current-bin
ShimPaths(f) == {r \in DOMAIN f : Len(r) = Len(LinkDir) + 1 /\ IsPrefix(LinkDir, r)}

\* the pointer does not name key
NotPointingAt(f, key) ==
  getCurrentVersion(f).err \/ getCurrentVersion(f).value # key

\* Use would not switch to key: no directory, or no bin directory in it
Missing(f, key) == ~Stat(f, VersionDir(key)) \/ ~Stat(f, BinPath(VersionDir(key)))

(***************************************************************************)
(* C1: between commands (after any sequence of Install, Use, Uninstall,    *)
(* failed calls and forced reinstalls included) the current pointer is     *)
(* absent or names a key whose directory exists under versions/.           *)
(***************************************************************************)
C1_PointerNamesInstalled ==
  Idle => \/ getCurrentVersion(fs).err
          \/ Stat(fs, VersionDir(getCurrentVersion(fs).value))

(***************************************************************************)
(* C2: a Use of a key that has no directory, or whose directory has no     *)
(* bin/, returns at once and leaves the pointer, the shim set and the      *)
(* installed versions exactly as they were.                                *)
(***************************************************************************)
C2_FailedUseChangesNothing ==
  [][ (pc'[1] = "idle" /\ last'.op = "Use" /\ Missing(fs', last'.key))
      => /\ pc[1] = "idle"
         /\ getCurrentVersion(fs') = getCurrentVersion(fs)
         /\ Under(fs', LinkDir) = Under(fs, LinkDir)
         /\ Under(fs', VersionsDir) = Under(fs, VersionsDir) ]_vars

C2_Witness ==
  /\ last.op = "Use"
  /\ last.out = "InvalidInstallation"
  /\ Stat(fs, VersionDir(last.key))
  /\ ~getCurrentVersion(fs).err
  /\ ShimPaths(fs) # {}

C5_PointerClearedBeforeRemoval ==
  /\ \A p \in Procs : pc[p] = "un_clear" => NotPointingAt(fs, call[p].key)
  /\ (last.op = "Uninstall" /\ last.ret = "error") => NotPointingAt(fs, last.key)

(***************************************************************************)
(* C6: an Install (without force) of a key whose directory exists returns  *)
(* nil at once with no download, no extraction and no change of state;     *)
(* hence an Install that installed a key followed by an Install of the     *)
(* same key makes one download and one extraction in total.                *)
(***************************************************************************)
C6_InstallIdempotent ==
  [][ (pc'[1] = "idle" /\ last'.op \in {"Install", "install"} /\ ~last'.force)
      => /\ last'.pre
            => /\ pc[1] = "idle"
               /\ last'.ret = "nil"
               /\ last'.dl = 0 /\ last'.ex = 0
               /\ fs' = fs
         /\ (last'.pre /\ last.op \in {"Install", "install"} /\ last.key = last'.key
               /\ last.ret = "nil" /\ ~last.pre)
            => (last.dl + last'.dl = 1 /\ last.ex + last'.ex = 1) ]_vars

C6_Witness ==
  /\ last.op = "Install"
  /\ last.pre
  /\ last.out = "AlreadyInstalled"
  /\ Stat(fs, BinPath(VersionDir(last.key)))

(***************************************************************************)
(* C7: when Install fails in the download or in the extraction, neither    *)
(* the version directory nor the temp archive exists when it returns.      *)
(***************************************************************************)
C7_FailedInstallLeavesNothing ==
  (last.op = "Install" /\ last.out \in {"DownloadFailed", "ExtractFailed"})
  => (~Stat(fs, VersionDir(last.key)) /\ ~Stat(fs, DownloadPath(last.req)))

(***************************************************************************)
(* C8: versions/k does not exist while an Install of k is in progress,     *)
(* nor after an Install of k that did not complete.                        *)
(***************************************************************************)
C8_NoPartialVersionDir ==
  /\ \A p \in Procs :
       pc[p] \in {"download", "extract_open", "extract", "flatten_scan", "flatten_move"}
       => ~Stat(fs, VersionDir(call[p].key))
  /\ (last.op = "Install" /\ last.ret = "error") => ~Stat(fs, VersionDir(last.key))

C10_ShimsFollowPointer ==
  Idle => \A s \in ShimPaths(fs) :
            /\ ~getCurrentVersion(fs).err
            /\ IsPrefix(VersionDir(getCurrentVersion(fs).value), fs[s].target)

\* the version component of a key (what precedes the first "-") as numbers
VersionNumbers(key) ==
  LET parts == Split(Split(KeyChars(key), "-")[1], ".")
  IN  [i \in 1..Len(parts) |-> DigitsValue(parts[i])]

\* a comes before b component by component, numerically
RECURSIVE NumbersLess(_, _)
NumbersLess(a, b) ==
  IF b = <<>> THEN FALSE
  ELSE IF a = <<>> THEN TRUE
  ELSE IF Head(a) # Head(b) THEN Head(a) < Head(b)
  ELSE NumbersLess(Tail(a), Tail(b))

(***************************************************************************)
(* C11: after a Use of k that succeeded, getCurrentVersion gives exactly   *)
(* k; and a command that is neither a successful Use nor the Uninstall of  *)
(* the key the pointer names leaves what getCurrentVersion gives as it     *)
(* was when the command started.                                           *)
(***************************************************************************)
C11_CurrentReportsUsedKey ==
  /\ (last.op = "Use" /\ last.ret = "nil" /\ last.out = "Switched")
       => getCurrentVersion(fs) = [err |-> FALSE, value |-> last.key]
  /\ (/\ Idle
      /\ last.op # "none"
      /\ ~last.cur.err
      /\ ~(last.op = "Use" /\ last.ret = "nil" /\ last.out = "Switched")
      /\ ~(last.op = "Uninstall" /\ last.key = last.cur.value))
       => getCurrentVersion(fs) = last.cur

(***************************************************************************)
(* C12: Current with the pointer absent prints that no version is          *)
(* selected and returns nil; with the pointer present it prints the        *)
(* version, also returning nil.                                            *)
(***************************************************************************)
C12_CurrentAbsorbsMissingPointer ==
  last.op = "Current" =>
    /\ last.ret = "nil"
    /\ getCurrentVersion(fs).err => last.out = "NoVersionSelected"
    /\ ~getCurrentVersion(fs).err => last.out = "CurrentlyUsing"

C12_Witness ==
  /\ last.op = "Current"
  /\ last.out = "NoVersionSelected"
  /\ getCurrentVersion(fs).err
  /\ ShimPaths(fs) # {}

(***************************************************************************)
(* C13: when a command returns with the pointer different from what it     *)
(* was when the command started, the command was a Use that succeeded or   *)
(* the Uninstall of the key the pointer named; Install, List, Current and  *)
(* the Uninstall of another key never change it.                           *)
(***************************************************************************)
C13_PointerChangedOnlyByUseOrUninstall ==
  (Idle /\ last.op # "none" /\ getCurrentVersion(fs) # last.cur)
  => \/ last.op = "Use" /\ last.ret = "nil"
     \/ last.op = "Uninstall" /\ ~last.cur.err /\ last.cur.value = last.key

(***************************************************************************)
(* C14: an Uninstall of a key whose directory does not exist returns nil   *)
(* in one step and leaves the whole tree (installed versions, pointer,     *)
(* shims) as it was.                                                       *)
(***************************************************************************)
C14_UninstallAbsentIsNoOp ==
  [][ (pc'[1] = "idle" /\ last'.op = "Uninstall" /\ ~last'.pre)
      => (last'.ret = "nil" /\ pc[1] = "idle" /\ fs' = fs) ]_vars

(***************************************************************************)
(* C15: the steps of Uninstall(k) leave the directory of every other key   *)
(* as it was, and when Uninstall(k) of an installed k returns nil nothing  *)
(* is left at or under versions/k, so that List does not print k and Use   *)
(* would find k not installed.                                             *)
(***************************************************************************)
C15_UninstallRemovesExactlyK ==
  [][ /\ pc[1] \in {"un_remove", "un_clear"}
         => \A k \in Keys \ {call[1].key} :
              Under(fs', VersionDir(k)) = Under(fs, VersionDir(k))
      /\ (pc'[1] = "idle" /\ last'.op = "Uninstall" /\ last'.pre /\ last'.ret = "nil")
         => /\ \A q \in DOMAIN fs' : ~IsPrefix(VersionDir(last'.key), q)
            /\ \A i \in DOMAIN ListLines(fs') : ListLines(fs')[i].key # last'.key
            /\ Missing(fs', last'.key) ]_vars

C15_Witness ==
  /\ last.op = "Uninstall"
  /\ last.pre
  /\ last.ret = "nil"
  /\ ~Stat(fs, VersionDir(last.key))
  /\ \E k \in Keys \ {last.key} : Stat(fs, Join(BinPath(VersionDir(k)), <<"node">>))

(***************************************************************************)
(* C17: the lines List prints are ordered by the numeric value of the      *)
(* version component (6.17.1 before 18.17.0) and, among keys of the same   *)
(* version, by the full key string.                                        *)
(***************************************************************************)
C17_ListSortsNumerically ==
  (last.op = "List" /\ last.ret = "nil") =>
    \A i, j \in DOMAIN last.list :
      i < j =>
        LET a == last.list[i].key
            b == last.list[j].key
        IN  IF VersionNumbers(a) # VersionNumbers(b)
            THEN NumbersLess(VersionNumbers(a), VersionNumbers(b))
            ELSE StrLess(KeyChars(a), KeyChars(b))

(***************************************************************************)
(* C18: List prints one line for each key whose directory exists under     *)
(* versions/ and no other line, each key once; a line is marked current    *)
(* exactly when its key is the one the pointer names, so at most one line  *)
(* is marked, and none when the pointer is absent.                         *)
(***************************************************************************)
C18_ListReportsInstalledAndCurrent ==
  (last.op = "List" /\ last.ret = "nil") =>
    LET lines == last.list
        cur == getCurrentVersion(fs)
    IN  /\ {lines[i].key : i \in DOMAIN lines} = {k \in Keys : Stat(fs, VersionDir(k))}
        /\ \A i, j \in DOMAIN lines : lines[i].key = lines[j].key => i = j
        /\ \A i \in DOMAIN lines :
             lines[i].current <=> (~cur.err /\ cur.value = lines[i].key)
        /\ Cardinality({i \in DOMAIN lines : lines[i].current}) <= 1
        /\ (last.out = "NoVersionsInstalled") <=> (lines = <<>>)

C18_Witness ==
  /\ last.op = "List"
  /\ last.out = "Listed"
  /\ Len(last.list) = Cardinality(Keys)
  /\ \E i \in DOMAIN last.list :
       last.list[i].current /\ last.list[i].key = <<"18.17.0">>

(***************************************************************************)
(* C16: whatever the archive, every file or directory extractArchive       *)
(* creates lies strictly inside the destination directory, nothing that    *)
(* existed outside it is altered, and an entry whose cleaned joined path   *)
(* is not strictly inside makes extractArchive return an error at once.    *)
(***************************************************************************)
C16_ExtractStaysInside ==
  [][ LET extractPath == VersionDir(ExtractKey)
          strictlyInside(q) == IsPrefix(extractPath, q) /\ q # extractPath
      IN  /\ \A q \in DOMAIN fs' \ DOMAIN fs :
               strictlyInside(q) \/ (q = extractPath /\ pc[1] = "x_open")
          /\ \A q \in DOMAIN fs :
               ~strictlyInside(q) /\ q # ArchivePath => (Stat(fs', q) /\ fs'[q] = fs[q])
          /\ (/\ pc[1] = "x_entry"
              /\ call[1].i <= Len(call[1].archive)
              /\ ~strictlyInside(Clean(extractPath \o call[1].archive[call[1].i].name)))
             => (pc'[1] = "idle" /\ last'.ret = "error" /\ fs' = fs) ]_vars

C16_Witness ==
  /\ last.op = "extractArchive"
  /\ last.out = "InvalidPath"
  /\ Stat(fs, VersionDir(ExtractKey) \o << <<"bin">>, <<"node">> >>)
  /\ fs[CurrentFile] = FileNode(<<"6.17.1">>)
  /\ ~Stat(fs, Join(VersionsDir, <<"evil.txt">>))

\* exactly three non-empty runs of digits separated by two dots
ThreePartNumeric(s) ==
  LET dots == {i \in 1..Len(s) : s[i] = "."}
  IN  /\ Cardinality(dots) = 2
      /\ \A i \in 1..Len(s) : i \notin dots => IsDigit(s[i])
      /\ 1 \notin dots /\ Len(s) \notin dots
      /\ \A i \in dots : (i + 1) \notin dots

(***************************************************************************)
(* C19: resolveVersion on a token MAJOR.MINOR.PATCH of digits returns the  *)
(* token itself, without error and without fetching the catalog.           *)
(***************************************************************************)
C19_ExactVersionResolvesToItself ==
  (rv.pc = "done" /\ ThreePartNumeric(rv.token))
  => (rv.err = "" /\ rv.value = rv.token /\ rv.fetches = 0)

C19_Witness ==
  /\ rv.pc = "done"
  /\ rv.token = <<"1", "8", ".", "1", "7", ".", "0">>
  /\ rv.value = rv.token
  /\ rv.catalog = << <<"v", "2", "0", ".", "1", ".", "0">> >>

\* the components of a dotted version as numbers
Numbers(s) ==
  LET parts == Split(s, ".")
  IN  [i \in 1..Len(parts) |-> DigitsValue(parts[i])]

(***************************************************************************)
(* C20: resolveVersion on a bare major M, the catalog having been fetched, *)
(* returns the entry that is greatest component by component among those   *)
(* starting with "vM.", in whatever order the catalog lists them, and      *)
(* fails with the not-found error when there is none.                      *)
(***************************************************************************)
C20_BareMajorResolvesToGreatest ==
  (/\ rv.pc = "done"
   /\ rv.token # <<>>
   /\ \A i \in 1..Len(rv.token) : IsDigit(rv.token[i])
   /\ rv.err # "FetchFailed")
  => LET matching == {TrimPrefixV(rv.catalog[i]) : i \in
                        {j \in DOMAIN rv.catalog :
                           HasPrefix(rv.catalog[j], <<"v">> \o rv.token \o <<".">>)}}
     IN  IF matching = {}
         THEN rv.err = "NotFound"
         ELSE /\ rv.err = ""
              /\ rv.value \in matching
              /\ \A m \in matching : ~NumbersLess(Numbers(rv.value), Numbers(m))

C20_Witness ==
  /\ rv.pc = "done"
  /\ rv.token = <<"2", "0">>
  /\ rv.catalog = << <<"v", "2", "0", ".", "1", ".", "0">>,
                     <<"v", "2", "0", ".", "1", "9", ".", "4">>,
                     <<"v", "2", "0", ".", "9", ".", "0">> >>
  /\ rv.value = <<"2", "0", ".", "1", "9", ".", "4">>

(***************************************************************************)
(* C21: resolving the alias "latest" (or "current") returns the first      *)
(* entry of the catalog sequence, whenever the catalog was fetched and     *)
(* has an entry.                                                           *)
(***************************************************************************)
AliasLatest ==
  { <<"l", "a", "t", "e", "s", "t">>, <<"c", "u", "r", "r", "e", "n", "t">> }

C21_LatestResolvesToFirstEntry ==
  (rv.pc = "done" /\ rv.token \in AliasLatest /\ rv.err # "FetchFailed"
     /\ rv.catalog # <<>>)
    => /\ rv.err = ""
       /\ rv.value \in {rv.catalog[1], TrimPrefixV(rv.catalog[1])}

(***************************************************************************)
(* C22: resolving the alias "lts" returns the first catalog entry whose    *)
(* LTS marker is truthy (a codename counts, false does not), and fails     *)
(* with NotFound when the catalog has no such entry.                       *)
(***************************************************************************)
Truthy(marker) == marker # "false"

C22_LtsResolvesToFirstLtsEntry ==
  (rv.pc = "done" /\ rv.token = <<"l", "t", "s">> /\ rv.err # "FetchFailed")
    => LET lts == {i \in DOMAIN rv.catalog : Truthy(LtsMarker(rv.catalog[i]))}
       IN  IF lts = {}
           THEN rv.err = "NotFound"
           ELSE LET i == CHOOSE j \in lts : \A k \in lts : j <= k
                IN  /\ rv.err = ""
                    /\ rv.value \in {rv.catalog[i], TrimPrefixV(rv.catalog[i])}

(***************************************************************************)
(* C23: getNodeRelease maps the target OS windows|win to platform win with *)
(* extension zip, darwin|macos to darwin with tar.gz and linux to linux    *)
(* with tar.xz; for every other OS value it fails with the unsupported     *)
(* platform error and returns no descriptor.  The target OS is the one     *)
(* given, or the host's when none is given.                                *)
(***************************************************************************)
TargetPlatform == IF rv.targetOS = "" THEN GOOS ELSE rv.targetOS

SupportedOS == {"windows", "win", "darwin", "macos", "linux"}

PlatformTable(os) ==
  CASE os \in {"windows", "win"} -> [name |-> "win", ext |-> "zip"]
    [] os \in {"darwin", "macos"} -> [name |-> "darwin", ext |-> "tar.gz"]
    [] os = "linux" -> [name |-> "linux", ext |-> "tar.xz"]

C23_PlatformTableOrUnsupported ==
  rv.pc = "done" =>
    IF TargetPlatform \in SupportedOS
    THEN /\ rv.err = ""
         /\ rv.release.ok
         /\ rv.release.Filename[5] = PlatformTable(TargetPlatform).name
         /\ rv.release.Ext = PlatformTable(TargetPlatform).ext
    ELSE /\ rv.err = "UnsupportedPlatform"
         /\ rv.release = NoDescriptor

C23_Witness ==
  /\ rv.pc = "done"
  /\ rv.targetOS = "bogus"
  /\ rv.err = "UnsupportedPlatform"
  /\ rv.release = NoDescriptor

(***************************************************************************)
(* C24: for every version, supported OS and architecture, getNodeRelease   *)
(* normalizes the architecture (x86_64|amd64 to x64, aarch64|arm64 to      *)
(* arm64, x86|i386|ia32|386 to x86, anything else unchanged and without    *)
(* error) and returns the filename                                         *)
(* node-v{version}-{platformName}-{archName}.{ext} and the URL             *)
(* https://nodejs.org/dist/v{version}/{filename}; nothing else changes.    *)
(***************************************************************************)
ArchTable(arch) ==
  CASE arch \in {"x86_64", "amd64"} -> "x64"
    [] arch \in {"aarch64", "arm64"} -> "arm64"
    [] arch \in {"x86", "i386", "ia32", "386"} -> "x86"
    [] OTHER -> arch

TargetArchitecture == IF rv.targetArch = "" THEN GOARCH ELSE rv.targetArch

C24_DescriptorNamesArtifact ==
  (rv.pc = "done" /\ TargetPlatform \in SupportedOS) =>
    LET filename == <<"node-", "v", rv.version, "-", PlatformTable(TargetPlatform).name,
                      "-", ArchTable(TargetArchitecture), ".",
                      PlatformTable(TargetPlatform).ext>>
    IN  /\ rv.err = ""
        /\ rv.release.Version = rv.version
        /\ rv.release.Filename = filename
        /\ rv.release.URL = <<"https://nodejs.org/dist/", "v", rv.version, "/">> \o filename
        /\ fs = MkdirAll(MkdirAll(MkdirAll(<<>> :> DirNode, NVSDir), VersionsDir), BinDir)
        /\ Idle
        /\ last = NoLast

C24_Witness ==
  /\ rv.pc = "done"
  /\ rv.targetOS = "darwin"
  /\ rv.targetArch = "riscv64"
  /\ rv.err = ""
  /\ rv.release.Filename =
       <<"node-", "v", rv.version, "-", "darwin", "-", "riscv64", ".", "tar.gz">>

(***************************************************************************)
(* C25: the VersionKey is the bare version when neither target OS nor      *)
(* target arch is given, and otherwise {version}-{os}-{arch} with a        *)
(* missing component filled from the host platform; Install and Use        *)
(* compute the same key for the same (version, os, arch), so Use looks     *)
(* for exactly the directory Install with the same arguments creates.      *)
(***************************************************************************)
C25_InstallAndUseShareTheKey ==
  rv.pc \in {"release", "done"} =>
    /\ rv.installKey =
         IF rv.targetOS = "" /\ rv.targetArch = ""
         THEN <<rv.version>>
         ELSE <<rv.version, "-", TargetPlatform, "-", TargetArchitecture>>
    /\ rv.useKey = rv.installKey
    /\ VersionDir(rv.useKey) = VersionDir(rv.installKey)

C25_Witness ==
  /\ rv.pc = "done"
  /\ rv.targetOS = ""
  /\ rv.targetArch = "arm64"
  /\ rv.installKey = <<rv.version, "-", GOOS, "-", "arm64">>
  /\ rv.useKey = rv.installKey

(***************************************************************************)
(* C26: Use called for a version whose directory does not exist returns    *)
(* no error: it only prints a not-installed notice.                        *)
(***************************************************************************)
C26_UseOfAbsentVersionReturnsNil ==
  (last.op \in {"Use", "UseResolved"} /\ ~last.pre)
    => (last.ret = "nil" /\ last.out = "NotInstalled")

(***************************************************************************)
(* C27: when two Use calls for installed keys k1 and k2 run concurrently   *)
(* in separate processes, under every interleaving of their steps both     *)
(* calls return, and from then on the current pointer names k1 or k2,      *)
(* namely the key of whichever call wrote the pointer last.                *)
(***************************************************************************)
RaceDone == \A p \in RaceProcs : pc[p] = "idle"

C28_PointerAndShimsAgree ==
  (RaceDone /\ rv.key[1] # rv.key[2]) =>
    LET binPath == BinPath(VersionDir(getCurrentVersion(fs).value))
        present == {b \in {binaries[n] : n \in 1..Len(binaries)} :
                      Stat(fs, Join(binPath, <<b>>))}
    IN  /\ ~getCurrentVersion(fs).err
        /\ Stat(fs, LinkDir)
        /\ ShimPaths(fs) = {Join(LinkDir, <<b>>) : b \in present}
        /\ \A s \in ShimPaths(fs) : IsPrefix(binPath, fs[s].target)

(***************************************************************************)
(* C29: if Use returns an error (writing the pointer failed, or rebuilding *)
(* current-bin failed after the pointer was written), the pointer is what  *)
(* it was before the call, and it does not name the new key while that     *)
(* key's shims are missing.                                                *)
(***************************************************************************)
C29_FailedUseRestoresPointer ==
  (last.op = "Use" /\ last.ret = "error") =>
    /\ getCurrentVersion(fs) = last.cur
    /\ NotPointingAt(fs, last.key)
         \/ \A b \in {binaries[n] : n \in 1..Len(binaries)} :
              Stat(fs, Join(BinPath(VersionDir(last.key)), <<b>>))
                => Stat(fs, Join(LinkDir, <<b>>))

(***************************************************************************)
(* C30: if Install returns an error at any step after extraction has       *)
(* begun (a failure while reading or moving the contents of the extracted  *)
(* node-* directory included), the version directory does not exist on     *)
(* return, so that a retried Install downloads again.                      *)
(***************************************************************************)
C30_FailedInstallRemovesVersionDir ==
  (last.op = "Install" /\ last.ret = "error" /\ last.ex > 0)
    => ~Stat(fs, VersionDir(last.key))

(***************************************************************************)
(* C31: extractArchive stops at the first entry that fails (path check or  *)
(* I/O error): it returns an error at once, and the destination holds what *)
(* the entries before the failing one produced and nothing of any later    *)
(* entry.                                                                  *)
(***************************************************************************)
C31_ExtractStopsAtFirstFailure ==
  [][ LET c == call[1]
          extractPath == VersionDir(ExtractKey)
          before == ExtractAll(MkdirAll(ExtractBase, extractPath), extractPath,
                               SubSeq(c.archive, 1, c.i - 1))
          destPath == DestPath(extractPath, c.archive[c.i].name)
      IN  /\ (/\ pc[1] = "x_entry"
              /\ c.i <= Len(c.archive)
              /\ \/ ~PathInside(extractPath, destPath)
                 \/ ~CanWrite(fs, destPath, c.archive[c.i]))
             => (pc'[1] = "idle" /\ last'.ret = "error" /\ fs' = fs)
          /\ (pc[1] = "x_entry" /\ pc'[1] = "idle" /\ last'.ret = "error")
             => /\ c.i <= Len(c.archive)
                /\ \A q \in DOMAIN fs' :
                     \/ q \in DOMAIN before /\ fs'[q] = before[q]
                     \/ q \in Prefixes(destPath)
                /\ \A q \in DOMAIN before :
                     q \in DOMAIN fs' /\ (fs'[q] = before[q] \/ q = destPath)
          /\ pc[1] = "idle" => fs' = fs ]_vars

C31_Witness ==
  LET d(n) == [name |-> n, isDir |-> TRUE, linkTarget |-> <<>>]
      f(n) == [name |-> n, isDir |-> FALSE, linkTarget |-> <<>>]
  IN  /\ last.op = "extractArchive"
      /\ last.ret = "error"
      /\ last.archive = << f(<< <<"bin">>, <<"node">> >>),
                           f(<< <<"..">>, <<"evil.txt">> >>),
                           d(<< <<"bin">>, <<"..">>, <<"lib">> >>) >>
      /\ Stat(fs, VersionDir(ExtractKey) \o << <<"bin">>, <<"node">> >>)
      /\ ~Stat(fs, VersionDir(ExtractKey) \o << <<"lib">> >>)
      /\ Stat(fs, ArchivePath)

(***************************************************************************)
(* C32: for a tar archive, every symlink entry is recreated in the         *)
(* destination as a symlink with its original target string, replacing any *)
(* file already at that path; it is never materialised as a regular file.  *)
(***************************************************************************)
C32_SymlinkEntriesStaySymlinks ==
  [][ LET c == call[1]
          e == c.archive[c.i]
          destPath == DestPath(VersionDir(ExtractKey), e.name)
      IN  (/\ pc[1] = "x_entry"
           /\ pc'[1] = "x_entry"
           /\ c.i <= Len(c.archive)
           /\ e.linkTarget # <<>>)
          => /\ Stat(fs', destPath)
             /\ fs'[destPath].kind # "file"
             /\ fs'[destPath].target = e.linkTarget ]_vars

Sign(n) == IF n < 0 THEN 0 - 1 ELSE IF n > 0 THEN 1 ELSE 0

C34_CompareVersionsIsAnOrdering ==
  rv.pc = "done"
  => /\ (rv.ab < 0) <=> NumbersLess(Numbers(rv.a), Numbers(rv.b))
     /\ (rv.ab > 0) <=> NumbersLess(Numbers(rv.b), Numbers(rv.a))
     /\ Sign(rv.ab) = 0 - Sign(rv.ba)
     /\ (rv.ab <= 0 /\ rv.bc <= 0) => rv.ac <= 0
     /\ (rv.ab <= 0 /\ rv.bc <= 0 /\ (rv.ab < 0 \/ rv.bc < 0)) => rv.ac < 0
     /\ rv.ab = 0 => Numbers(rv.a) = Numbers(rv.b)

\* 20.19.4 against 20.9.0, and a version against its own extension
C34_Witness ==
  /\ rv.pc = "done"
  /\ rv.a = <<"2", "0", ".", "1", "9", ".", "4">>
  /\ rv.b = <<"2", "0", ".", "9", ".", "0">>
  /\ rv.c = <<"9">>
  /\ rv.ab > 0 /\ rv.ba < 0 /\ rv.bc > 0 /\ rv.ac > 0

(***************************************************************************)
(* C35: Uninstall called with a key whose directory Install has created,   *)
(* the composite keys version-os-arch included, does not return the error  *)
(* of version resolution (which is also the only step that contacts        *)
(* nodejs.org).                                                            *)
(***************************************************************************)
C35_InstalledKeyCanBeUninstalled ==
  (last.op = "Uninstall" /\ last.pre) => last.out # "ResolveFailed"

(***************************************************************************)
(* C36: while the view is Processing, Update on any key other than Ctrl+C  *)
(* returns the model unchanged and no command; the view leaves Processing  *)
(* only in the step that receives a taskDoneMsg, and then it is Result;    *)
(* no task is started while the view is Processing, and at most one task   *)
(* is running or has its taskDoneMsg undelivered.                          *)
(***************************************************************************)
TasksInFlight ==
  Len(rv.tasks) + Cardinality({i \in DOMAIN rv.msgs : rv.msgs[i].type = "taskDoneMsg"})

C36_ProcessingIgnoresKeys ==
  /\ [](rv.m.state = "viewProcessing"
          => \A key \in TuiKeys \ {"ctrl+c"} :
               UpdateKey(rv.m, key) = [m |-> rv.m, cmd |-> NoCmd])
  /\ [](TasksInFlight <= 1)
  /\ [][ rv.m.state = "viewProcessing"
         => /\ rv'.m.state \in {"viewProcessing", "viewResult"}
            /\ rv'.started = rv.started
            /\ rv'.m.state = "viewResult"
                 => /\ rv.msgs # <<>>
                    /\ Head(rv.msgs).type = "taskDoneMsg"
                    /\ rv'.msgs = Tail(rv.msgs) ]_vars

\* the second task of a session is running and a stale list is on its way
C36_Witness ==
  /\ rv.m.state = "viewProcessing"
  /\ ~rv.m.quitting
  /\ rv.started = MaxTasks
  /\ Len(rv.tasks) = 1
  /\ rv.msgs # <<>>

(***************************************************************************)
(* C37: in every reachable state of the interface the cursor is an index   *)
(* of the list on display: of the menu in the main menu, of the installed  *)
(* versions in the three selection views.                                  *)
(***************************************************************************)
C37_CursorIsValidIndex ==
  /\ rv.m.state = "viewMainMenu" => rv.m.cursor \in 0..(Len(MenuItems) - 1)
  /\ rv.m.state \in SelectViews => rv.m.cursor \in 0..(Len(rv.m.installedVersions) - 1)

(***************************************************************************)
(* C38: when DetectInstallation reports StateInstalled, the CLI binary and *)
(* the GUI binary both exist in the bin directory.                         *)
(***************************************************************************)
C38_InstalledMeansBothBinaries ==
  (rv.pc = "done" /\ rv.state = "StateInstalled")
    => (fileExists(fs, CLIPath) /\ fileExists(fs, UIPath))

(***************************************************************************)
(* C39: for every list of release assets, when the list has an asset whose *)
(* lower-cased name contains "nvs-cli" and the platform identifier and one *)
(* whose name contains "nvs-ui" and the platform identifier,               *)
(* findPlatformAssets returns such a CLI asset and such a GUI asset, and   *)
(* the two differ; when either kind is missing it returns an error.        *)
(***************************************************************************)
C39_AssetsMatchTheirKind ==
  rv.pc = "done"
  => LET platform == getPlatformIdentifier(GOOS, GOARCH)
         hasCLI == \E i \in DOMAIN rv.assets : IsCLIAsset(rv.assets[i], platform)
         hasUI == \E i \in DOMAIN rv.assets : IsUIAsset(rv.assets[i], platform)
     IN  IF hasCLI /\ hasUI
         THEN /\ rv.err = ""
              /\ IsCLIAsset(rv.cli, platform)
              /\ IsUIAsset(rv.ui, platform)
              /\ rv.cli # rv.ui
         ELSE rv.err # ""

====
